---- MODULE Spec2Model ----
(***************************************************************************)
(* Verification model of lincw/bio-utils.                                  *)
(*                                                                         *)
(* Ten specifications share this module:                                   *)
(*   SpecTable     the two contingency-table functions,                    *)
(*                 perform_fisher_test and pathway_enrichment_test,        *)
(*                 applied to drawn gene lists                             *)
(*   SpecModule    main() of module_enrichment_analysis.py                 *)
(*   SpecPathway   main() of gene_set_fisher.py                            *)
(*   SpecLaunch    environment, flags and input checks of both main()s     *)
(*   SpecColumns   the column handling of load_gene_data and load_modules  *)
(*   SpecConverter UniProtConverter.convert_ids_batch and its requests     *)
(*   SpecGeneList  load_gene_list of module_enrichment_analysis.py         *)
(*   SpecOmnipath  OmnipathDownloader.download_interactions                *)
(*   SpecFolders   main() of folders_compare.py and its two comparisons    *)
(*   SpecChangelog the run of generate_changelog.py                        *)
(*                                                                         *)
(* Gene identifiers are opaque strings in the code; here they are the      *)
(* integers 1..n.  The integer 0 stands for a blank text line or a NaN     *)
(* table cell.  p-values, odds ratios and FDR values are floats in the     *)
(* code; here they are exact fractions [num, den], compared by cross       *)
(* multiplication.                                                         *)
(***************************************************************************)
EXTENDS Integers, Sequences, FiniteSets, TLC

VARIABLES
    \* SpecTable
    t_pc, t_background, t_module, t_test, t_arrangement, t_out,
    \* SpecModule
    m_pc, gene_file, module_file, module_df, query_genes, background_genes,
    unique_modules, m_idx, fisher_calls, results, results_df,
    warnings, output_csv, sig_csv, exit_status,
    \* SpecPathway
    p_pc, input_df, p_background, p_up, p_down, p_pathway,
    up_result, down_result, p_output, p_exit,
    \* SpecLaunch
    l_pc, l_script, l_env, l_args, l_present, l_paths, l_printed, l_loaded,
    l_tests, l_written, l_exit,
    \* SpecColumns
    c_pc, c_script, c_kinds, c_df, c_result, c_output, c_exit,
    \* SpecConverter
    u_pc, u_verbose, u_cache, u_stats, u_calls, u_ids, u_valid, u_result,
    u_i, u_retry, u_out, u_log, u_seen,
    \* SpecGeneList
    g_pc, g_file, g_pos, g_genes, g_template,
    \* SpecOmnipath
    o_pc, o_args, o_interactions, o_files, o_printed, o_return, o_error,
    \* SpecFolders
    f_pc, f_dir1, f_dir2, f_quick, f_detailed, f_printed, f_exit,
    \* SpecChangelog
    cl_pc, cl_log, cl_commits, cl_grouped, cl_changelog, cl_file, cl_error

tableVars == <<t_pc, t_background, t_module, t_test, t_arrangement, t_out>>
moduleVars == <<m_pc, gene_file, module_file, module_df, query_genes,
                background_genes,
                unique_modules, m_idx, fisher_calls, results, results_df,
                warnings, output_csv, sig_csv, exit_status>>
pathwayVars == <<p_pc, input_df, p_background, p_up, p_down, p_pathway,
                 up_result, down_result, p_output, p_exit>>
launchVars == <<l_pc, l_script, l_env, l_args, l_present, l_paths, l_printed,
                l_loaded, l_tests, l_written, l_exit>>
columnsVars == <<c_pc, c_script, c_kinds, c_df, c_result, c_output, c_exit>>
converterVars == <<u_pc, u_verbose, u_cache, u_stats, u_calls, u_ids, u_valid,
                   u_result, u_i, u_retry, u_out, u_log, u_seen>>
geneListVars == <<g_pc, g_file, g_pos, g_genes, g_template>>
omnipathVars ==
    <<o_pc, o_args, o_interactions, o_files, o_printed, o_return, o_error>>
foldersVars ==
    <<f_pc, f_dir1, f_dir2, f_quick, f_detailed, f_printed, f_exit>>
changelogVars ==
    <<cl_pc, cl_log, cl_commits, cl_grouped, cl_changelog, cl_file, cl_error>>
extVars ==
    <<launchVars, columnsVars, converterVars, geneListVars, omnipathVars,
      foldersVars, changelogVars>>
vars == <<tableVars, moduleVars, pathwayVars, extVars>>

----------------------------------------------------------------------------
(* Bounds of the model *)

\* SpecTable: genes are 1..MaxUniverse, drawn module/test sets hold at most
\* MaxSetSize genes.
MaxUniverse == 10
MaxSetSize == 3
\* SpecModule: genes are 1..NumGenes, the module file has at most MaxRows rows.
NumGenes == 7
MaxRows == 2
\* SpecPathway: genes are 1..PathwayGenes.
PathwayGenes == 3
\* SpecConverter: at most MaxCalls calls of convert_ids_batch, the longest
\* list holds NumAccessions accessions.
MaxCalls == 2
NumAccessions == 11
\* SpecGeneList: a gene list file has at most MaxLines lines.
MaxLines == 4
\* SpecOmnipath: a download answers with at most MaxInteractions rows.
MaxInteractions == 2
\* SpecFolders: subdirectories are nested at most MaxDepth deep.
MaxDepth == 1
\* SpecChangelog: the git log holds at most MaxCommits commits.
MaxCommits == 3

----------------------------------------------------------------------------
(* Sequences, sets and fractions *)

Range(s) == {s[i] : i \in DOMAIN s}

Min(S) == CHOOSE x \in S : \A y \in S : x <= y

RECURSIVE AscSeq(_)
AscSeq(S) == IF S = {} THEN <<>> ELSE <<Min(S)>> \o AscSeq(S \ {Min(S)})

Reverse(s) == [i \in 1..Len(s) |-> s[Len(s) + 1 - i]]

\* The ways a gene list of the same content is written in an input file.
Arrangements == {"ascending", "descending", "duplicated"}

Arrange(S, k) ==
    CASE k = "ascending" -> AscSeq(S)
      [] k = "descending" -> Reverse(AscSeq(S))
      [] OTHER -> AscSeq(S) \o Reverse(AscSeq(S))

Frac(n, d) == [num |-> n, den |-> d]
FracLess(x, y) == x.num * y.den < y.num * x.den
FracLeq(x, y) == x.num * y.den <= y.num * x.den
FracEq(x, y) == x.num * y.den = y.num * x.den
FracOne == Frac(1, 1)

RECURSIVE Choose(_, _)
Choose(n, k) ==
    IF k < 0 \/ k > n THEN 0
    ELSE IF k = 0 THEN 1
    ELSE (Choose(n, k - 1) * (n - k + 1)) \div k

----------------------------------------------------------------------------
(* scipy.stats.fisher_exact(table, alternative='greater'), as both scripts *)
(* call it                                                                 *)

\* hypergeom.pmf(k, M, n, N) * C(M, N): k marked among N drawn from M of
\* which n are marked.
HypergeomWays(k, M, n, N) == Choose(n, k) * Choose(M - n, N - k)

RECURSIVE HypergeomCdfWays(_, _, _, _)
HypergeomCdfWays(k, M, n, N) ==
    IF k < 0 THEN 0
    ELSE HypergeomWays(k, M, n, N) + HypergeomCdfWays(k - 1, M, n, N)

hypergeom_cdf(k, M, n, N) == Frac(HypergeomCdfWays(k, M, n, N), Choose(M, N))

OddsNaN == [kind |-> "nan", num |-> 0, den |-> 0]
OddsInf == [kind |-> "inf", num |-> 0, den |-> 0]
OddsFinite(n, d) == [kind |-> "finite", num |-> n, den |-> d]

\* alternative='less': the lower tail of the first cell.
fisher_exact_less(a, b, c, d) ==
    IF a < 0 \/ b < 0 \/ c < 0 \/ d < 0
    THEN [status |-> "ValueError", odds |-> OddsNaN, p |-> Frac(0, 1)]
    ELSE IF a + b = 0 \/ c + d = 0 \/ a + c = 0 \/ b + d = 0
    THEN [status |-> "ok", odds |-> OddsNaN, p |-> FracOne]
    ELSE [status |-> "ok",
          odds |-> IF c > 0 /\ b > 0 THEN OddsFinite(a * d, c * b) ELSE OddsInf,
          p |-> hypergeom_cdf(a, a + b + c + d, a + b, a + c)]

\* alternative='greater': a negative cell is a ValueError; a zero row or
\* column gives (nan, 1.0); otherwise the sample odds ratio a*d/(c*b) (inf
\* when c*b = 0) and the lower tail of the second column of the first row.
fisher_exact(a, b, c, d) ==
    IF a < 0 \/ b < 0 \/ c < 0 \/ d < 0
    THEN [status |-> "ValueError", odds |-> OddsNaN, p |-> Frac(0, 1)]
    ELSE IF a + b = 0 \/ c + d = 0 \/ a + c = 0 \/ b + d = 0
    THEN [status |-> "ok", odds |-> OddsNaN, p |-> FracOne]
    ELSE [status |-> "ok",
          odds |-> IF c > 0 /\ b > 0 THEN OddsFinite(a * d, c * b) ELSE OddsInf,
          p |-> hypergeom_cdf(b, a + b + c + d, a + b, b + d)]

----------------------------------------------------------------------------
(* Loading gene lists *)

\* A whitespace-only line of the gene list file.
Blank == 0
\* An empty cell of a dataframe column.
NaNCell == 0
\* A Members field that is empty or missing (pandas reads both as NaN).
NaNMembers == <<>>

\* module_enrichment_analysis.load_gene_list: next(f) drops the first line,
\* the set comprehension strips each line and drops the blank ones.
load_gene_list(lines) == {lines[i] : i \in 2..Len(lines)} \ {Blank}

\* The Members field taken as one identifier: the split forgotten.
members_genes_first_token(members_str) ==
    IF members_str = NaNMembers THEN {} ELSE {members_str[1]}

\* get_module_genes / main: a NaN or empty field gives the empty set, any
\* other field is split at commas and each token stripped.
members_genes(members_str) ==
    IF members_str = NaNMembers THEN {} ELSE Range(members_str)

\* gene_set_fisher.load_gene_data: set(df[col].dropna())
dropna_set(column) == Range(column) \ {NaNCell}

----------------------------------------------------------------------------
(* The two contingency-table functions *)

\* perform_fisher_test with b taken as the whole test set.
perform_fisher_test_b_total(module_genes, test_genes, background) ==
    LET overlap == module_genes \cap test_genes
        a == Cardinality(overlap)
        b == Cardinality(test_genes)
        c == Cardinality(module_genes) - a
        d == Cardinality(background) - a - b - c
        fe == fisher_exact(a, b, c, d)
    IN  [status |-> fe.status, contingency_table |-> <<a, b, c, d>>,
         overlap_count |-> a, p_value |-> fe.p, odds_ratio |-> fe.odds,
         overlap_genes |-> overlap]

perform_fisher_test(module_genes, test_genes, background) ==
    LET overlap == module_genes \cap test_genes
        a == Cardinality(overlap)
        b == Cardinality(test_genes) - a
        c == Cardinality(module_genes) - a
        d == Cardinality(background) - a - b - c
        fe == fisher_exact(a, b, c, d)
    IN  [status |-> fe.status, contingency_table |-> <<a, b, c, d>>,
         overlap_count |-> a, p_value |-> fe.p, odds_ratio |-> fe.odds,
         overlap_genes |-> overlap]

\* pathway_enrichment_test with c taken from the whole pathway size.
pathway_enrichment_test_c_total(diff_genes, pathway_genes, background) ==
    LET pathway_in_background == pathway_genes \cap background
        a == Cardinality(diff_genes \cap pathway_in_background)
        b == Cardinality(diff_genes) - a
        c == Cardinality(pathway_in_background)
        d == Cardinality(background) - a - b - c
        fe == fisher_exact(a, b, c, d)
    IN  [status |-> fe.status, contingency_table |-> <<a, b, c, d>>,
         genes_in_pathway |-> a,
         total_diff_genes |-> Cardinality(diff_genes),
         pathway_size |-> Cardinality(pathway_in_background),
         background_size |-> Cardinality(background),
         p_value |-> fe.p, odds_ratio |-> fe.odds,
         overlap_genes |-> diff_genes \cap pathway_in_background]

pathway_enrichment_test(diff_genes, pathway_genes, background) ==
    LET pathway_in_background == pathway_genes \cap background
        a == Cardinality(diff_genes \cap pathway_in_background)
        b == Cardinality(diff_genes) - a
        c == Cardinality(pathway_in_background) - a
        d == Cardinality(background) - a - b - c
        fe == fisher_exact(a, b, c, d)
    IN  [status |-> fe.status, contingency_table |-> <<a, b, c, d>>,
         genes_in_pathway |-> a,
         total_diff_genes |-> Cardinality(diff_genes),
         pathway_size |-> Cardinality(pathway_in_background),
         background_size |-> Cardinality(background),
         p_value |-> fe.p, odds_ratio |-> fe.odds,
         overlap_genes |-> diff_genes \cap pathway_in_background]

----------------------------------------------------------------------------
(* Dataframes and CSV files (pandas)                                       *)
(* A dataframe is [columns, rows]: the column names in order and one       *)
(* function from column name to cell per row.  A CSV file is a sequence of *)
(* lines [kind, cells]: the header line holds the column names, every      *)
(* other line the cells of one row in column order.                        *)

NoFile == [written |-> FALSE, text |-> <<>>]

ColumnIndex(columns, c) == CHOOSE j \in 1..Len(columns) : columns[j] = c

\* DataFrame.to_csv(path, index=False) without the header line.
to_csv_no_header(df) ==
    [written |-> TRUE,
     text |-> [i \in 1..Len(df.rows) |->
                 [kind |-> "row",
                  cells |-> [j \in 1..Len(df.columns) |->
                                df.rows[i][df.columns[j]]]]]]

\* DataFrame.to_csv(path, index=False)
to_csv(df) ==
    [written |-> TRUE,
     text |-> <<[kind |-> "header", cells |-> df.columns]>> \o
              [i \in 1..Len(df.rows) |->
                 [kind |-> "row",
                  cells |-> [j \in 1..Len(df.columns) |->
                                df.rows[i][df.columns[j]]]]]]

\* pd.read_csv(path): the first line names the columns, every later line is
\* a row.
read_csv(text) ==
    [columns |-> text[1].cells,
     rows |-> [i \in 1..(Len(text) - 1) |->
                 [c \in Range(text[1].cells) |->
                     text[i + 1].cells[ColumnIndex(text[1].cells, c)]]]]

\* pd.DataFrame(list of dicts): no dict, no column.
DataFrame(dicts, columns) ==
    IF dicts = <<>> THEN [columns |-> <<>>, rows |-> <<>>]
    ELSE [columns |-> columns, rows |-> dicts]

HasColumn(df, c) == c \in Range(df.columns)

\* The permutations of 1..n.
Perms(n) == {f \in [1..n -> 1..n] : \A i, j \in 1..n : f[i] = f[j] => i = j}

\* np.argsort / DataFrame.sort_values with the default kind='quicksort':
\* the orders an ascending sort may produce; equal values may come out in
\* any order.
AscendingOrders(ps) ==
    {f \in Perms(Len(ps)) :
        \A i, j \in 1..Len(ps) : i < j => FracLeq(ps[f[i]], ps[f[j]])}

PValues(rows) == [i \in 1..Len(rows) |-> rows[i]["p_value"]]

----------------------------------------------------------------------------
(* statsmodels multipletests(pvals, method='fdr_bh') *)

FracMin(x, y) == IF FracLeq(y, x) THEN y ELSE x

RECURSIVE CumMinFromRight(_, _)
\* np.minimum.accumulate(raw[::-1])[::-1] at position i
CumMinFromRight(raw, i) ==
    IF i = Len(raw) THEN raw[i]
    ELSE FracMin(raw[i], CumMinFromRight(raw, i + 1))

ClipOne(x) == IF FracLess(FracOne, x) THEN FracOne ELSE x

\* fdr_bh without the running minimum: p * m / rank, clipped at 1.
fdr_bh_no_cummin(pvals, sortind) ==
    LET m == Len(pvals)
        raw == [i \in 1..m |->
                  Frac(pvals[sortind[i]].num * m, pvals[sortind[i]].den * i)]
    IN  [j \in 1..m |->
            ClipOne(raw[CHOOSE i \in 1..m : sortind[i] = j])]

\* The p-values are sorted (sortind), each divided by rank/m, the running
\* minimum is taken from the largest down, values above 1 become 1, and the
\* result is put back in the order of the input.
fdr_bh(pvals, sortind) ==
    LET m == Len(pvals)
        raw == [i \in 1..m |->
                  Frac(pvals[sortind[i]].num * m, pvals[sortind[i]].den * i)]
    IN  [j \in 1..m |->
            ClipOne(CumMinFromRight(raw, CHOOSE i \in 1..m : sortind[i] = j))]

----------------------------------------------------------------------------
(* module_enrichment_analysis.py *)

ModuleColumns == <<"ID", "process_name", "Members">>

ResultColumns ==
    <<"module_id", "module_name", "module_size", "overlap_count", "p_value",
      "odds_ratio", "overlap_genes">>

\* unique keeping every ID of the column, repeats included.
unique_keep_repeats(ids) == ids

\* module_df['ID'].unique(): the IDs in order of first appearance.
unique(ids) ==
    LET F[i \in 0..Len(ids)] ==
            IF i = 0 THEN <<>>
            ELSE IF ids[i] \in Range(F[i - 1]) THEN F[i - 1]
            ELSE Append(F[i - 1], ids[i])
    IN  F[Len(ids)]

RowsOf(df, module_id) == SelectSeq(df.rows, LAMBDA r : r["ID"] = module_id)

\* get_module_genes reading the last row of the module instead of the first.
get_module_genes_last_row(df, module_id) ==
    LET module_rows == RowsOf(df, module_id)
    IN  IF module_rows = <<>> THEN {}
        ELSE members_genes(module_rows[Len(module_rows)]["Members"])

get_module_genes(df, module_id) ==
    LET module_rows == RowsOf(df, module_id)
    IN  IF module_rows = <<>> THEN {}
        ELSE members_genes(module_rows[1]["Members"])

\* module_df[module_df['ID'] == module_id]['process_name'].iloc[0]
module_name_of(df, module_id) == RowsOf(df, module_id)[1]["process_name"]

\* The background set of main: every gene of every Members field.
background_of(df) ==
    UNION {members_genes(df.rows[i]["Members"]) : i \in 1..Len(df.rows)}

\* The threshold of the secondary file.
SigLevel == Frac(5, 100)

\* results_df['p_value'] <= 0.05
is_significant_leq(p) == FracLeq(p, SigLevel)

\* results_df['p_value'] < 0.05
is_significant(p) == FracLess(p, SigLevel)

----------------------------------------------------------------------------
(* Idle values: a specification leaves the other scripts' state here *)

TableIdle ==
    /\ t_pc = "idle"
    /\ t_background = {}
    /\ t_module = {}
    /\ t_test = {}
    /\ t_arrangement = "ascending"
    /\ t_out = <<>>

ModuleIdle ==
    /\ m_pc = "idle"
    /\ gene_file = <<>>
    /\ module_file = <<>>
    /\ module_df = <<>>
    /\ query_genes = {}
    /\ background_genes = {}
    /\ unique_modules = <<>>
    /\ m_idx = 0
    /\ fisher_calls = <<>>
    /\ results = <<>>
    /\ results_df = <<>>
    /\ warnings = <<>>
    /\ output_csv = NoFile
    /\ sig_csv = NoFile
    /\ exit_status = -1

PathwayIdle ==
    /\ p_pc = "idle"
    /\ input_df = <<>>
    /\ p_background = {}
    /\ p_up = {}
    /\ p_down = {}
    /\ p_pathway = {}
    /\ up_result = <<>>
    /\ down_result = <<>>
    /\ p_output = NoFile
    /\ p_exit = -1

LaunchIdle ==
    /\ l_pc = "idle"
    /\ l_script = "none"
    /\ l_env = <<>>
    /\ l_args = <<>>
    /\ l_present = {}
    /\ l_paths = <<>>
    /\ l_printed = {}
    /\ l_loaded = {}
    /\ l_tests = {}
    /\ l_written = {}
    /\ l_exit = -1

ColumnsIdle ==
    /\ c_pc = "idle"
    /\ c_script = "none"
    /\ c_kinds = <<>>
    /\ c_df = <<>>
    /\ c_result = <<>>
    /\ c_output = NoFile
    /\ c_exit = -1

ConverterIdle ==
    /\ u_pc = "off"
    /\ u_verbose = FALSE
    /\ u_cache = <<>>
    /\ u_stats = <<>>
    /\ u_calls = 0
    /\ u_ids = <<>>
    /\ u_valid = <<>>
    /\ u_result = <<>>
    /\ u_i = 0
    /\ u_retry = 0
    /\ u_out = <<>>
    /\ u_log = <<>>
    /\ u_seen = {}

GeneListIdle ==
    /\ g_pc = "idle"
    /\ g_file = <<>>
    /\ g_pos = 0
    /\ g_genes = {}
    /\ g_template = FALSE

OmnipathIdle ==
    /\ o_pc = "idle"
    /\ o_args = [given |-> FALSE, value |-> <<>>]
    /\ o_interactions = <<>>
    /\ o_files = {}
    /\ o_printed = <<>>
    /\ o_return = [given |-> FALSE, value |-> <<>>]
    /\ o_error = "none"

FoldersIdle ==
    /\ f_pc = "idle"
    /\ f_dir1 = <<>>
    /\ f_dir2 = <<>>
    /\ f_quick = "none"
    /\ f_detailed = "none"
    /\ f_printed = {}
    /\ f_exit = "none"

ChangelogIdle ==
    /\ cl_pc = "idle"
    /\ cl_log = <<>>
    /\ cl_commits = <<>>
    /\ cl_grouped = <<>>
    /\ cl_changelog = <<>>
    /\ cl_file = [written |-> FALSE, text |-> <<>>]
    /\ cl_error = "none"

ExtIdle ==
    /\ LaunchIdle /\ ColumnsIdle /\ ConverterIdle /\ GeneListIdle
    /\ OmnipathIdle /\ FoldersIdle /\ ChangelogIdle

----------------------------------------------------------------------------
(* SpecTable: both table functions on drawn inputs.  The background is     *)
(* 1..n, the module 1..k, the test set any small set; neither set is       *)
(* forced to lie inside the background.  Gene names being opaque, every    *)
(* triple with module and test set inside the background is one of these   *)
(* up to renaming.                                                         *)

TableGenes == 1..MaxUniverse

TableBackgrounds == {1..n : n \in 0..MaxUniverse}

TableModules == {1..k : k \in 0..MaxSetSize}

TableTests == {S \in SUBSET TableGenes : Cardinality(S) <= MaxSetSize}

\* The first line of a gene list file, which load_gene_list discards.
HeaderLine == 1

\* One run of each function on the drawn sets, every list written in
\* arrangement k: the module script reads the test set with load_gene_list
\* and the module and background from Members fields, the pathway script
\* reads all three from dataframe columns.
RunBoth(k) ==
    [fisher |-> perform_fisher_test(
                    members_genes(Arrange(t_module, k)),
                    load_gene_list(<<HeaderLine>> \o Arrange(t_test, k)),
                    members_genes(Arrange(t_background, k))),
     pathway |-> pathway_enrichment_test(
                    dropna_set(Arrange(t_test, k)),
                    dropna_set(Arrange(t_module, k)),
                    dropna_set(Arrange(t_background, k)))]

TableInit ==
    /\ t_pc = "input"
    /\ t_background \in TableBackgrounds
    /\ t_module \in TableModules
    /\ t_test \in TableTests
    /\ t_arrangement = "ascending"
    /\ t_out = <<>>
    /\ ModuleIdle
    /\ PathwayIdle
    /\ ExtIdle

TableRun ==
    /\ t_pc = "input"
    /\ \E k \in Arrangements :
          /\ t_arrangement' = k
          /\ t_out' = [first |-> RunBoth("ascending"), second |-> RunBoth(k)]
    /\ t_pc' = "done"
    /\ UNCHANGED <<t_background, t_module, t_test, moduleVars, pathwayVars, extVars>>

TableNext == TableRun

SpecTable == TableInit /\ [][TableNext]_vars

----------------------------------------------------------------------------
(* SpecModule: main() of module_enrichment_analysis.py from the point      *)
(* where both input files exist, on drawn input files.  The gene list file *)
(* is a header line followed by the genes 1..k, or by the odd genes, a     *)
(* blank line and gene 1 again; a Members field is NaN, a                  *)
(* list 1..k, the last two genes written last-first with a repeat, or one  *)
(* whitespace-only token; module IDs are numbered in order of first        *)
(* appearance and row i is named i.                                        *)

ModuleGenes == 1..NumGenes

GeneFiles ==
    {<<HeaderLine>> \o AscSeq(1..k) : k \in 0..NumGenes} \cup
    {<<HeaderLine>> \o AscSeq({g \in ModuleGenes : g % 2 = 1})
         \o <<Blank, 1>>}

MembersFields ==
    {NaNMembers} \cup {AscSeq(1..k) : k \in 1..NumGenes}
        \cup {<<NumGenes, NumGenes - 1, NumGenes>>, <<Blank>>}

ModuleTables(n) ==
    {f \in [1..n -> [ID : 1..n, Members : MembersFields]] :
        \A i \in 1..n :
            f[i].ID <= 1 + Cardinality({f[j].ID : j \in 1..(i - 1)})}

ModuleText(f) ==
    <<[kind |-> "header", cells |-> ModuleColumns]>> \o
    [i \in 1..Len(f) |->
        [kind |-> "row", cells |-> <<f[i].ID, i, f[i].Members>>]]

ModuleFiles ==
    UNION {{ModuleText(f) : f \in ModuleTables(n)} : n \in 0..MaxRows}

NoGenesWarning(module_id) == [kind |-> "no_genes", module_id |-> module_id]
NoResultsWarning == [kind |-> "no_results", module_id |-> 0]
NoSignificantWarning == [kind |-> "no_significant", module_id |-> 0]

ModuleInit ==
    /\ m_pc = "start"
    /\ gene_file \in GeneFiles
    /\ module_file \in ModuleFiles
    /\ module_df = <<>>
    /\ query_genes = {}
    /\ background_genes = {}
    /\ unique_modules = <<>>
    /\ m_idx = 0
    /\ fisher_calls = <<>>
    /\ results = <<>>
    /\ results_df = <<>>
    /\ warnings = <<>>
    /\ output_csv = NoFile
    /\ sig_csv = NoFile
    /\ exit_status = -1
    /\ TableIdle
    /\ PathwayIdle
    /\ ExtIdle

\* lines 339-367: load both files, collect the module IDs, build the
\* background from every Members field, keep the query genes in it.
ModLoad ==
    /\ m_pc = "start"
    /\ LET df == read_csv(module_file)
       IN  /\ module_df' = df
           /\ unique_modules' =
                 unique([i \in 1..Len(df.rows) |-> df.rows[i]["ID"]])
           /\ background_genes' = background_of(df)
           /\ query_genes' = load_gene_list(gene_file) \cap background_of(df)
    /\ results' = <<>>
    /\ m_idx' = 1
    /\ m_pc' = "loop"
    /\ UNCHANGED <<gene_file, module_file, fisher_calls, results_df, warnings,
                   output_csv, sig_csv, exit_status, tableVars, pathwayVars, extVars>>

\* lines 371-381: a module without genes is skipped with a warning.
ModSkip ==
    /\ m_pc = "loop"
    /\ m_idx <= Len(unique_modules)
    /\ get_module_genes(module_df, unique_modules[m_idx]) = {}
    /\ warnings' = Append(warnings, NoGenesWarning(unique_modules[m_idx]))
    /\ m_idx' = m_idx + 1
    /\ UNCHANGED <<m_pc, gene_file, module_file, module_df, query_genes,
                   background_genes, unique_modules, fisher_calls, results,
                   results_df, output_csv, sig_csv, exit_status, tableVars,
                   pathwayVars, extVars>>

\* lines 371-397: the module is tested and its result appended; a
\* ValueError of fisher_exact leaves main and ends the process with 1.
\* fisher_calls records every call of perform_fisher_test.
ModTest ==
    /\ m_pc = "loop"
    /\ m_idx <= Len(unique_modules)
    /\ get_module_genes(module_df, unique_modules[m_idx]) # {}
    /\ LET module_id == unique_modules[m_idx]
           module_genes == get_module_genes(module_df, module_id)
           r == perform_fisher_test(module_genes, query_genes,
                                    background_genes)
       IN  /\ fisher_calls' = Append(fisher_calls,
                  [module_id |-> module_id, module_genes |-> module_genes,
                   contingency_table |-> r.contingency_table])
           /\ IF r.status = "ValueError"
              THEN /\ m_pc' = "exited"
                   /\ exit_status' = 1
                   /\ UNCHANGED <<results, m_idx>>
              ELSE /\ results' = Append(results,
                        [module_id |-> module_id,
                         module_name |-> module_name_of(module_df, module_id),
                         module_size |-> Cardinality(module_genes),
                         overlap_count |-> r.overlap_count,
                         p_value |-> r.p_value,
                         odds_ratio |-> r.odds_ratio,
                         overlap_genes |-> r.overlap_genes])
                   /\ m_idx' = m_idx + 1
                   /\ UNCHANGED <<m_pc, exit_status>>
    /\ UNCHANGED <<gene_file, module_file, module_df, query_genes,
                   background_genes, unique_modules, results_df, warnings,
                   output_csv, sig_csv, tableVars, pathwayVars, extVars>>

\* WithFdr attaching the FDR values in ascending order to the rows as they
\* stand, without putting them back in the order of the input.
WithFdr_by_rank(df, fdr_values) ==
    LET ord == CHOOSE f \in AscendingOrders(fdr_values) : TRUE
    IN  [columns |-> Append(df.columns, "fdr"),
         rows |-> [i \in 1..Len(df.rows) |->
                     [c \in Range(df.columns) \cup {"fdr"} |->
                         IF c = "fdr" THEN fdr_values[ord[i]]
                         ELSE df.rows[i][c]]]]

\* lines 399-405: the fdr column is added to the dataframe of the results.
WithFdr(df, fdr_values) ==
    [columns |-> Append(df.columns, "fdr"),
     rows |-> [i \in 1..Len(df.rows) |->
                 [c \in Range(df.columns) \cup {"fdr"} |->
                     IF c = "fdr" THEN fdr_values[i] ELSE df.rows[i][c]]]]

\* lines 399-408: the results become a dataframe; unless it is empty the
\* fdr column is added, otherwise a warning is logged.
ModFDR ==
    /\ m_pc = "loop"
    /\ m_idx > Len(unique_modules)
    /\ LET df == DataFrame(results, ResultColumns)
       IN  IF df.rows # <<>>
           THEN /\ \E sortind \in AscendingOrders(PValues(df.rows)) :
                      results_df' =
                          WithFdr(df, fdr_bh(PValues(df.rows), sortind))
                /\ UNCHANGED warnings
           ELSE /\ results_df' = df
                /\ warnings' = Append(warnings, NoResultsWarning)
    /\ m_pc' = "sort"
    /\ UNCHANGED <<gene_file, module_file, module_df, query_genes,
                   background_genes, unique_modules, m_idx, fisher_calls,
                   results, output_csv, sig_csv, exit_status, tableVars,
                   pathwayVars, extVars>>

\* line 411 on a dataframe without a p_value column: sort_values raises
\* KeyError, which __main__ does not catch; the interpreter exits with 1.
ModSortKeyError ==
    /\ m_pc = "sort"
    /\ ~HasColumn(results_df, "p_value")
    /\ m_pc' = "exited"
    /\ exit_status' = 1
    /\ UNCHANGED <<gene_file, module_file, module_df, query_genes,
                   background_genes, unique_modules, m_idx, fisher_calls,
                   results, results_df, warnings, output_csv, sig_csv,
                   tableVars, pathwayVars, extVars>>

\* lines 410-415: sort by p_value and write the primary file.
ModSortSave ==
    /\ m_pc = "sort"
    /\ HasColumn(results_df, "p_value")
    /\ \E order \in AscendingOrders(PValues(results_df.rows)) :
          LET sorted == [columns |-> results_df.columns,
                         rows |-> [i \in 1..Len(results_df.rows) |->
                                      results_df.rows[order[i]]]]
          IN  /\ results_df' = sorted
              /\ output_csv' = to_csv(sorted)
    /\ m_pc' = "significant"
    /\ UNCHANGED <<gene_file, module_file, module_df, query_genes,
                   background_genes, unique_modules, m_idx, fisher_calls,
                   results, warnings, sig_csv, exit_status, tableVars,
                   pathwayVars, extVars>>

\* lines 417-424: the rows below the threshold go to the secondary file,
\* which is written only when there is such a row.
ModSignificant ==
    /\ m_pc = "significant"
    /\ LET sig_df == [columns |-> results_df.columns,
                      rows |-> SelectSeq(results_df.rows,
                                  LAMBDA r : is_significant(r["p_value"]))]
       IN  IF sig_df.rows # <<>>
           THEN /\ sig_csv' = to_csv(sig_df)
                /\ UNCHANGED warnings
           ELSE /\ warnings' = Append(warnings, NoSignificantWarning)
                /\ UNCHANGED sig_csv
    /\ m_pc' = "summary"
    /\ UNCHANGED <<gene_file, module_file, module_df, query_genes,
                   background_genes, unique_modules, m_idx, fisher_calls,
                   results, results_df, output_csv, exit_status, tableVars,
                   pathwayVars, extVars>>

\* lines 426-438: the summary reads the p_value and fdr columns; main
\* returns and the process ends with status 0.
ModSummary ==
    /\ m_pc = "summary"
    /\ m_pc' = "exited"
    /\ exit_status' =
          IF HasColumn(results_df, "p_value") /\ HasColumn(results_df, "fdr")
          THEN 0 ELSE 1
    /\ UNCHANGED <<gene_file, module_file, module_df, query_genes,
                   background_genes, unique_modules, m_idx, fisher_calls,
                   results, results_df, warnings, output_csv, sig_csv,
                   tableVars, pathwayVars, extVars>>

ModuleNext ==
    \/ ModLoad
    \/ ModSkip
    \/ ModTest
    \/ ModFDR
    \/ ModSortKeyError
    \/ ModSortSave
    \/ ModSignificant
    \/ ModSummary

SpecModule == ModuleInit /\ [][ModuleNext]_vars

----------------------------------------------------------------------------
(* SpecPathway: main() of gene_set_fisher.py from the point where the      *)
(* input file exists, on drawn input files with the four required columns  *)
(* under their exact names.  The background column lists the genes 1..n,   *)
(* the other columns any set of genes; short columns are padded with NaN.  *)

PathwayColumns == <<"background", "up-regulated", "down-regulated", "pathway">>

SavedColumns ==
    <<"gene_set", "genes_in_pathway", "total_genes", "pathway_size",
      "background_size", "odds_ratio", "p_value", "overlap_genes">>

PathwayGeneSets == SUBSET (1..PathwayGenes)

Max(S) == CHOOSE x \in S : \A y \in S : y <= x

\* Cell i of a column that lists the genes of S.
Cell(S, i) == IF i <= Cardinality(S) THEN AscSeq(S)[i] ELSE NaNCell

InputFrame(B, U, D, P) ==
    [columns |-> PathwayColumns,
     rows |-> [i \in 1..Max({Cardinality(B), Cardinality(U),
                             Cardinality(D), Cardinality(P)}) |->
                 [c \in Range(PathwayColumns) |->
                     CASE c = "background" -> Cell(B, i)
                       [] c = "up-regulated" -> Cell(U, i)
                       [] c = "down-regulated" -> Cell(D, i)
                       [] OTHER -> Cell(P, i)]]]

InputFrames ==
    {InputFrame(1..n, U, D, P) :
        n \in 0..PathwayGenes, U \in PathwayGeneSets,
        D \in PathwayGeneSets, P \in PathwayGeneSets}

Column(df, c) == [i \in 1..Len(df.rows) |-> df.rows[i][c]]

\* One row of the dataframe save_results builds.
SavedRow(gene_set, result) ==
    [gene_set |-> gene_set,
     genes_in_pathway |-> result.genes_in_pathway,
     total_genes |-> result.total_diff_genes,
     pathway_size |-> result.pathway_size,
     background_size |-> result.background_size,
     odds_ratio |-> result.odds_ratio,
     p_value |-> result.p_value,
     overlap_genes |-> result.overlap_genes]

PathwayInit ==
    /\ p_pc = "start"
    /\ input_df \in InputFrames
    /\ p_background = {}
    /\ p_up = {}
    /\ p_down = {}
    /\ p_pathway = {}
    /\ up_result = <<>>
    /\ down_result = <<>>
    /\ p_output = NoFile
    /\ p_exit = -1
    /\ TableIdle
    /\ ModuleIdle
    /\ ExtIdle

\* lines 343-346 and load_gene_data lines 126-138: all four columns are
\* present, each becomes the set of its cells that are not NaN.
PLoad ==
    /\ p_pc = "start"
    /\ p_background' = dropna_set(Column(input_df, "background"))
    /\ p_up' = dropna_set(Column(input_df, "up-regulated"))
    /\ p_down' = dropna_set(Column(input_df, "down-regulated"))
    /\ p_pathway' = dropna_set(Column(input_df, "pathway"))
    /\ p_pc' = "test_up"
    /\ UNCHANGED <<input_df, up_result, down_result, p_output, p_exit,
                   tableVars, moduleVars, extVars>>

\* lines 348-350; an exception of fisher_exact is caught at line 382 and
\* main returns 1.
PTestUp ==
    /\ p_pc = "test_up"
    /\ up_result' = pathway_enrichment_test(p_up, p_pathway, p_background)
    /\ IF up_result'.status = "ValueError"
       THEN p_pc' = "exited" /\ p_exit' = 1
       ELSE p_pc' = "test_down" /\ UNCHANGED p_exit
    /\ UNCHANGED <<input_df, p_background, p_up, p_down, p_pathway,
                   down_result, p_output, tableVars, moduleVars, extVars>>

\* lines 352-354
PTestDown ==
    /\ p_pc = "test_down"
    /\ down_result' = pathway_enrichment_test(p_down, p_pathway, p_background)
    /\ IF down_result'.status = "ValueError"
       THEN p_pc' = "exited" /\ p_exit' = 1
       ELSE p_pc' = "save" /\ UNCHANGED p_exit
    /\ UNCHANGED <<input_df, p_background, p_up, p_down, p_pathway,
                   up_result, p_output, tableVars, moduleVars, extVars>>

\* lines 356-380 and save_results: both results are written and main
\* returns 0.
PSave ==
    /\ p_pc = "save"
    /\ p_output' = to_csv(DataFrame(<<SavedRow("up-regulated", up_result),
                                      SavedRow("down-regulated", down_result)>>,
                                    SavedColumns))
    /\ p_pc' = "exited"
    /\ p_exit' = 0
    /\ UNCHANGED <<input_df, p_background, p_up, p_down, p_pathway,
                   up_result, down_result, tableVars, moduleVars, extVars>>

PathwayNext ==
    \/ PLoad
    \/ PTestUp
    \/ PTestDown
    \/ PSave

SpecPathway == PathwayInit /\ [][PathwayNext]_vars

----------------------------------------------------------------------------
(* SpecLaunch: the start of main() of both enrichment scripts: environment *)
(* variables, command-line flags, path resolution and the checks on the    *)
(* input files.  A path is [given, parts]: given is FALSE for None (flag   *)
(* absent, variable unset), parts are the components of the string, "/"    *)
(* first for an absolute path, none for the empty string.  A file exists   *)
(* when its name is in l_present.  Input files that exist hold the content *)
(* of the scripts' own templates, so the analysis that follows succeeds.   *)

NonePath == [given |-> FALSE, parts |-> <<>>]
EmptyPath == [given |-> TRUE, parts |-> <<>>]
Rel(name) == [given |-> TRUE, parts |-> <<name>>]
Abs(name) == [given |-> TRUE, parts |-> <<"/", name>>]

\* Python truth value of a str-or-None.
Truthy(p) == p.given /\ p.parts # <<>>

\* Python `a or b`.
Or(a, b) == IF Truthy(a) THEN a ELSE b

\* os.path.isabs / os.path.join / os.path.exists
isabs(p) == p.parts # <<>> /\ p.parts[1] = "/"
join(dir, p) == IF isabs(p) THEN p
                ELSE [given |-> TRUE, parts |-> dir.parts \o p.parts]
exists(p) == p.parts # <<>> /\ p.parts[Len(p.parts)] \in l_present

\* os.path.splitext(input_file)[0] + "_results.csv"
default_output(input_file) ==
    [given |-> TRUE, parts |-> input_file.parts \o <<"_results.csv">>]

\* `args.x or default_x`, then the RESULTS_DIR prefix for a relative path.
resolve(flag, default, results_dir) ==
    LET chosen == Or(flag, default)
    IN  IF Truthy(results_dir) /\ Truthy(chosen) /\ ~isabs(chosen)
        THEN join(results_dir, chosen)
        ELSE chosen

Scripts == {"module_enrichment_analysis", "gene_set_fisher"}

FlagValues(name) == {NonePath, EmptyPath, Rel(name), Abs(name)}
EnvValues(name) == {NonePath, Rel(name)}
ResultsDirs == {NonePath, Abs("results")}

LaunchEnvs(script) ==
    IF script = "module_enrichment_analysis"
    THEN [RESULTS_DIR : ResultsDirs,
          GENE_LIST_FILE : EnvValues("env_genes.txt"),
          MODULE_FILE : EnvValues("env_modules.csv"),
          OUTPUT_FILE : EnvValues("env_out.csv")]
    ELSE [RESULTS_DIR : ResultsDirs,
          INPUT_FILE : EnvValues("env_input.csv"),
          OUTPUT_FILE : EnvValues("env_out.csv")]

LaunchArgs(script) ==
    IF script = "module_enrichment_analysis"
    THEN [gene_list : FlagValues("cli_genes.txt"),
          module_file : FlagValues("cli_modules.csv"),
          output : FlagValues("cli_out.csv"),
          help : BOOLEAN]
    ELSE [input : FlagValues("cli_input.csv"),
          output : FlagValues("cli_out.csv"),
          help : BOOLEAN]

InputNames(script) ==
    IF script = "module_enrichment_analysis"
    THEN {"cli_genes.txt", "env_genes.txt", "cli_modules.csv",
          "env_modules.csv"}
    ELSE {"cli_input.csv", "env_input.csv"}

LaunchInit ==
    /\ l_pc = "start"
    /\ l_script \in Scripts
    /\ l_env \in LaunchEnvs(l_script)
    /\ l_args \in LaunchArgs(l_script)
    /\ l_present \in SUBSET InputNames(l_script)
    /\ l_paths = <<>>
    /\ l_printed = {}
    /\ l_loaded = {}
    /\ l_tests = {}
    /\ l_written = {}
    /\ l_exit = -1
    /\ TableIdle
    /\ ModuleIdle
    /\ PathwayIdle
    /\ ColumnsIdle
    /\ ConverterIdle
    /\ GeneListIdle
    /\ OmnipathIdle
    /\ FoldersIdle
    /\ ChangelogIdle

LaunchOthers ==
    <<tableVars, moduleVars, pathwayVars, columnsVars, converterVars,
      geneListVars, omnipathVars,
      foldersVars, changelogVars>>

\* --help: print_help() and return; the process ends with status 0.
ShowHelp(script) ==
    /\ l_pc = "start"
    /\ l_script = script
    /\ l_args.help
    /\ l_printed' = {"help"}
    /\ l_exit' = 0
    /\ l_pc' = "exited"
    /\ UNCHANGED <<l_script, l_env, l_args, l_present, l_paths, l_loaded,
                   l_tests, l_written, LaunchOthers>>

\* module_enrichment_analysis.py lines 226-228
MeaHelp == ShowHelp("module_enrichment_analysis")

\* module_enrichment_analysis.py lines 211-242
MeaResolve ==
    /\ l_pc = "start"
    /\ l_script = "module_enrichment_analysis"
    /\ ~l_args.help
    /\ l_paths' =
          [gene_file |-> resolve(l_args.gene_list, l_env.GENE_LIST_FILE,
                                 l_env.RESULTS_DIR),
           module_file |-> resolve(l_args.module_file, l_env.MODULE_FILE,
                                   l_env.RESULTS_DIR),
           output_file |-> resolve(l_args.output, l_env.OUTPUT_FILE,
                                   l_env.RESULTS_DIR)]
    /\ l_pc' = "resolved"
    /\ UNCHANGED <<l_script, l_env, l_args, l_present, l_printed, l_loaded,
                   l_tests, l_written, l_exit, LaunchOthers>>

\* lines 244-276: a path that is None or empty; ValueError, caught by
\* __main__ (lines 431-438), status 1.
MeaMissingPaths ==
    /\ l_pc = "resolved"
    /\ l_script = "module_enrichment_analysis"
    /\ \E k \in DOMAIN l_paths : ~Truthy(l_paths[k])
    /\ l_printed' = l_printed \cup {"ERROR: MISSING REQUIRED FILE PATHS"}
    /\ l_exit' = 1
    /\ l_pc' = "exited"
    /\ UNCHANGED <<l_script, l_env, l_args, l_present, l_paths, l_loaded,
                   l_tests, l_written, LaunchOthers>>

\* The file check reporting the missing files without raising.
MeaMissingFiles_no_raise ==
    /\ l_pc = "resolved"
    /\ l_script = "module_enrichment_analysis"
    /\ \A k \in DOMAIN l_paths : Truthy(l_paths[k])
    /\ ~exists(l_paths.gene_file) \/ ~exists(l_paths.module_file)
    /\ l_printed' = l_printed \cup {"ERROR: INPUT FILES NOT FOUND"}
    /\ l_loaded' = {"gene_list", "module_file"}
    /\ l_pc' = "loaded"
    /\ UNCHANGED <<l_script, l_env, l_args, l_present, l_paths, l_tests,
                   l_written, l_exit, LaunchOthers>>

\* lines 278-331: an input file that does not exist; the template of each
\* missing file is printed, ValueError, status 1.
MeaMissingFiles ==
    /\ l_pc = "resolved"
    /\ l_script = "module_enrichment_analysis"
    /\ \A k \in DOMAIN l_paths : Truthy(l_paths[k])
    /\ ~exists(l_paths.gene_file) \/ ~exists(l_paths.module_file)
    /\ l_printed' = l_printed \cup {"ERROR: INPUT FILES NOT FOUND"}
          \cup (IF exists(l_paths.gene_file) THEN {}
                ELSE {"GENE LIST TEMPLATE:"})
          \cup (IF exists(l_paths.module_file) THEN {}
                ELSE {"MODULE FILE TEMPLATE (CSV):"})
    /\ l_exit' = 1
    /\ l_pc' = "exited"
    /\ UNCHANGED <<l_script, l_env, l_args, l_present, l_paths, l_loaded,
                   l_tests, l_written, LaunchOthers>>

\* lines 333-348: both files exist; load them.
MeaLoad ==
    /\ l_pc = "resolved"
    /\ l_script = "module_enrichment_analysis"
    /\ \A k \in DOMAIN l_paths : Truthy(l_paths[k])
    /\ exists(l_paths.gene_file) /\ exists(l_paths.module_file)
    /\ l_loaded' = {"gene_list", "module_file"}
    /\ l_pc' = "loaded"
    /\ UNCHANGED <<l_script, l_env, l_args, l_present, l_paths, l_printed,
                   l_tests, l_written, l_exit, LaunchOthers>>

\* lines 350-429 on the modules M1, M2, M3 of the template: one test per
\* module, the result file is written, main returns.
MeaAnalyse ==
    /\ l_pc = "loaded"
    /\ l_script = "module_enrichment_analysis"
    /\ l_tests' = {"M1", "M2", "M3"}
    /\ l_written' = {l_paths.output_file}
    /\ l_exit' = 0
    /\ l_pc' = "exited"
    /\ UNCHANGED <<l_script, l_env, l_args, l_present, l_paths, l_printed,
                   l_loaded, LaunchOthers>>

\* gene_set_fisher.py lines 294-296
GsfHelp == ShowHelp("gene_set_fisher")

\* gene_set_fisher.py lines 280-308
GsfResolve ==
    /\ l_pc = "start"
    /\ l_script = "gene_set_fisher"
    /\ ~l_args.help
    /\ l_paths' =
          [input_file |-> resolve(l_args.input, l_env.INPUT_FILE,
                                  l_env.RESULTS_DIR),
           output_file |-> resolve(l_args.output, l_env.OUTPUT_FILE,
                                   l_env.RESULTS_DIR)]
    /\ l_pc' = "resolved"
    /\ UNCHANGED <<l_script, l_env, l_args, l_present, l_printed, l_loaded,
                   l_tests, l_written, l_exit, LaunchOthers>>

\* lines 311-322: no input path; main returns 1.
GsfNoInput ==
    /\ l_pc = "resolved"
    /\ l_script = "gene_set_fisher"
    /\ ~Truthy(l_paths.input_file)
    /\ l_printed' = l_printed \cup {"ERROR: INPUT FILE PATH NOT SPECIFIED"}
    /\ l_exit' = 1
    /\ l_pc' = "exited"
    /\ UNCHANGED <<l_script, l_env, l_args, l_present, l_paths, l_loaded,
                   l_tests, l_written, LaunchOthers>>

\* lines 324-327: the output path defaults to one derived from the input.
with_default_output(paths) ==
    IF Truthy(paths.output_file) THEN paths
    ELSE [paths EXCEPT !.output_file = default_output(paths.input_file)]

\* lines 324-340: the input file does not exist; the template is shown and
\* main returns 1.
GsfMissingFile ==
    /\ l_pc = "resolved"
    /\ l_script = "gene_set_fisher"
    /\ Truthy(l_paths.input_file)
    /\ ~exists(l_paths.input_file)
    /\ l_paths' = with_default_output(l_paths)
    /\ l_printed' = l_printed \cup {"ERROR: INPUT FILE NOT FOUND",
                                    "Expected input file format:"}
    /\ l_exit' = 1
    /\ l_pc' = "exited"
    /\ UNCHANGED <<l_script, l_env, l_args, l_present, l_loaded, l_tests,
                   l_written, LaunchOthers>>

\* lines 324-346: the input file exists; load it.
GsfLoad ==
    /\ l_pc = "resolved"
    /\ l_script = "gene_set_fisher"
    /\ Truthy(l_paths.input_file)
    /\ exists(l_paths.input_file)
    /\ l_paths' = with_default_output(l_paths)
    /\ l_loaded' = {"input"}
    /\ l_pc' = "loaded"
    /\ UNCHANGED <<l_script, l_env, l_args, l_present, l_printed, l_tests,
                   l_written, l_exit, LaunchOthers>>

\* lines 348-380 on the template's columns: both tests, the result file is
\* written, main returns 0.
GsfAnalyse ==
    /\ l_pc = "loaded"
    /\ l_script = "gene_set_fisher"
    /\ l_tests' = {"up-regulated", "down-regulated"}
    /\ l_written' = {l_paths.output_file}
    /\ l_exit' = 0
    /\ l_pc' = "exited"
    /\ UNCHANGED <<l_script, l_env, l_args, l_present, l_paths, l_printed,
                   l_loaded, LaunchOthers>>

LaunchNext ==
    \/ MeaHelp
    \/ MeaResolve
    \/ MeaMissingPaths
    \/ MeaMissingFiles
    \/ MeaLoad
    \/ MeaAnalyse
    \/ GsfHelp
    \/ GsfResolve
    \/ GsfNoInput
    \/ GsfMissingFile
    \/ GsfLoad
    \/ GsfAnalyse

SpecLaunch == LaunchInit /\ [][LaunchNext]_vars

----------------------------------------------------------------------------
(* SpecColumns: the column checks of load_gene_data (gene_set_fisher.py)   *)
(* and load_modules (module_enrichment_analysis.py), followed by the rest  *)
(* of each main().  A column name is the sequence of its characters, so    *)
(* that lower() and replace() act on it as in the code.  Each required     *)
(* column of the drawn input file is present under its exact name, under a *)
(* variant in case or separator, under its synonym, or absent.             *)

str_background == <<"b", "a", "c", "k", "g", "r", "o", "u", "n", "d">>
str_up_regulated == <<"u", "p", "-", "r", "e", "g", "u", "l", "a", "t", "e", "d">>
str_down_regulated == <<"d", "o", "w", "n", "-", "r", "e", "g", "u", "l", "a", "t", "e", "d">>
str_pathway == <<"p", "a", "t", "h", "w", "a", "y">>
str_up == <<"u", "p">>
str_down == <<"d", "o", "w", "n">>
str_all == <<"a", "l", "l">>
str_gene_set == <<"g", "e", "n", "e", "_", "s", "e", "t">>
str_Background == <<"B", "a", "c", "k", "g", "r", "o", "u", "n", "d">>
str_Up_Regulated == <<"U", "p", "_", "R", "e", "g", "u", "l", "a", "t", "e", "d">>
str_DOWN_REGULATED == <<"D", "O", "W", "N", " ", "R", "E", "G", "U", "L", "A", "T", "E", "D">>
str_Pathway == <<"P", "a", "t", "h", "w", "a", "y">>
str_Down == <<"D", "o", "w", "n">>
str_ID == <<"I", "D">>
str_process_name == <<"p", "r", "o", "c", "e", "s", "s", "_", "n", "a", "m", "e">>
str_Members == <<"M", "e", "m", "b", "e", "r", "s">>
str_id == <<"i", "d">>
str_Process_Name == <<"P", "r", "o", "c", "e", "s", "s", " ", "N", "a", "m", "e">>
str_members == <<"m", "e", "m", "b", "e", "r", "s">>

UpperCase == <<"A", "B", "C", "D", "E", "F", "G", "H", "I", "J", "K", "L", "M", "N", "O", "P", "Q", "R", "S", "T", "U", "V", "W", "X", "Y", "Z">>
LowerCase == <<"a", "b", "c", "d", "e", "f", "g", "h", "i", "j", "k", "l", "m", "n", "o", "p", "q", "r", "s", "t", "u", "v", "w", "x", "y", "z">>

\* str.lower() and the two str.replace() calls of line 81, per character.
lower_char(c) ==
    IF \E i \in 1..Len(UpperCase) : UpperCase[i] = c
    THEN LowerCase[CHOOSE i \in 1..Len(UpperCase) : UpperCase[i] = c]
    ELSE c
lower(s) == [i \in 1..Len(s) |-> lower_char(s[i])]
replace(s, old, new) == [i \in 1..Len(s) |-> IF s[i] = old THEN new ELSE s[i]]

\* line 81: the key under which a column of the file is entered in col_map.
col_key_of(col) == replace(replace(lower(col), " ", "-"), "_", "-")

\* line 81: col_map, a dict; of two columns with one key the later one stays.
col_map_keys(df) == {col_key_of(df.columns[j]) : j \in 1..Len(df.columns)}
col_map(df, key) ==
    df.columns[Max({j \in 1..Len(df.columns) : col_key_of(df.columns[j]) = key})]

required_cols ==
    <<str_background, str_up_regulated, str_down_regulated, str_pathway>>

\* lines 86-100: the column of the file used for a missing required column,
\* as a sequence of no or one column name.
fixed_col(df, col) ==
    LET col_key == lower(col)
        keys == col_map_keys(df)
    IN  CASE col_key \in keys -> <<col_map(df, col_key)>>
          [] col_key \notin keys /\ col_key = str_up_regulated /\ str_up \in keys ->
                <<col_map(df, str_up)>>
          [] col_key \notin keys /\ col_key = str_down_regulated /\ str_down \in keys ->
                <<col_map(df, str_down)>>
          [] col_key \notin keys /\ col_key = str_background /\ str_all \in keys ->
                <<col_map(df, str_all)>>
          [] col_key \notin keys /\ col_key = str_pathway /\ str_gene_set \in keys ->
                <<col_map(df, str_gene_set)>>
          [] OTHER -> <<>>

LoadError(error, named, templates) ==
    [status |-> error, named |-> named, templates |-> templates,
     background |-> {}, upregulated |-> {}, downregulated |-> {},
     pathway |-> {}]

\* load_gene_data (lines 74-143) on the dataframe read from the file.  The
\* result names the exception raised, the columns its message names and how
\* often show_input_template was called (at line 120 or 124, and again in
\* the handler at line 142).
load_gene_data(df) ==
    LET IsMissing(col) == col \notin Range(df.columns)
        missing_cols == SelectSeq(required_cols, IsMissing)
        StillMissing(col) == fixed_col(df, col) = <<>>
        still_missing == SelectSeq(missing_cols, StillMissing)
        \* the column each gene set is read from, when it is assigned at all
        source(col) == IF IsMissing(col) THEN fixed_col(df, col)[1] ELSE col
    IN  IF missing_cols = <<>> \/ (still_missing = <<>>
                                   /\ Len(missing_cols) = Len(required_cols))
        THEN [status |-> "ok", named |-> <<>>, templates |-> 0,
              background |-> dropna_set(Column(df, source(str_background))),
              upregulated |-> dropna_set(Column(df, source(str_up_regulated))),
              downregulated |->
                  dropna_set(Column(df, source(str_down_regulated))),
              pathway |-> dropna_set(Column(df, source(str_pathway)))]
        ELSE IF Len(still_missing) = Len(missing_cols)
        THEN \* line 122-125: nothing matched
             LoadError("ValueError", missing_cols, 2)
        ELSE IF still_missing # <<>>
        THEN \* lines 117-121
             LoadError("ValueError", still_missing, 2)
        ELSE \* lines 107-115 assign only the sets of the matched columns;
             \* line 133 reads a set that was never assigned
             LoadError("UnboundLocalError", <<>>, 1)

module_required_cols == <<str_ID, str_process_name, str_Members>>

\* load_modules without the column check.
load_modules_no_check(df) ==
    [status |-> "ok", named |-> <<>>, templates |-> 0]

\* load_modules (lines 89-113) on the dataframe read from the file.
load_modules(df) ==
    LET IsMissing(col) == col \notin Range(df.columns)
        missing_cols == SelectSeq(module_required_cols, IsMissing)
    IN  IF missing_cols # <<>>
        THEN [status |-> "ValueError", named |-> missing_cols, templates |-> 1]
        ELSE [status |-> "ok", named |-> <<>>, templates |-> 0]

Kinds == {"exact", "variant", "synonym", "absent"}
ModuleKinds == {"exact", "variant", "absent"}

\* The header under which a required column of the pathway input stands.
PathwayHeader(col, kind) ==
    CASE col = "background" ->
            (CASE kind = "exact" -> str_background
               [] kind = "variant" -> str_Background
               [] OTHER -> str_all)
      [] col = "up_regulated" ->
            (CASE kind = "exact" -> str_up_regulated
               [] kind = "variant" -> str_Up_Regulated
               [] OTHER -> str_up)
      [] col = "down_regulated" ->
            (CASE kind = "exact" -> str_down_regulated
               [] kind = "variant" -> str_DOWN_REGULATED
               [] OTHER -> str_Down)
      [] col = "pathway" ->
            (CASE kind = "exact" -> str_pathway
               [] kind = "variant" -> str_Pathway
               [] OTHER -> str_gene_set)

ModuleHeader(col, kind) ==
    CASE col = "ID" -> (IF kind = "exact" THEN str_ID ELSE str_id)
      [] col = "process_name" ->
            (IF kind = "exact" THEN str_process_name ELSE str_Process_Name)
      [] col = "Members" ->
            (IF kind = "exact" THEN str_Members ELSE str_members)

\* The cells of each column of the drawn input files.
PathwayCells ==
    [background |-> <<1, 2, 3>>, up_regulated |-> <<1, NaNCell, NaNCell>>,
     down_regulated |-> <<2, NaNCell, NaNCell>>, pathway |-> <<1, 3, NaNCell>>]
ModuleCells ==
    [ID |-> <<1, 2>>, process_name |-> <<1, 2>>,
     Members |-> << <<1, 2>>, <<2, 3>> >>]

PathwayOrder == <<"background", "up_regulated", "down_regulated", "pathway">>
ModuleOrder == <<"ID", "process_name", "Members">>

\* The dataframe read from a file whose required columns stand as `kinds`
\* says.
FrameOf(kinds, order, Header(_, _), cells) ==
    LET IsPresent(col) == kinds[col] # "absent"
        present == SelectSeq(order, IsPresent)
        columns == [j \in 1..Len(present) |-> Header(present[j], kinds[present[j]])]
        cells_of(c) == cells[present[ColumnIndex(columns, c)]]
    IN  [columns |-> columns,
         rows |-> [i \in 1..Len(cells[order[1]]) |->
                     [c \in Range(columns) |-> cells_of(c)[i]]]]

ColumnsInit ==
    /\ c_pc = "start"
    /\ c_script \in Scripts
    /\ IF c_script = "gene_set_fisher"
       THEN /\ c_kinds \in [Range(PathwayOrder) -> Kinds]
            /\ c_df = FrameOf(c_kinds, PathwayOrder, PathwayHeader, PathwayCells)
       ELSE /\ c_kinds \in [Range(ModuleOrder) -> ModuleKinds]
            /\ c_df = FrameOf(c_kinds, ModuleOrder, ModuleHeader, ModuleCells)
    /\ c_result = <<>>
    /\ c_output = NoFile
    /\ c_exit = -1
    /\ TableIdle
    /\ ModuleIdle
    /\ PathwayIdle
    /\ LaunchIdle
    /\ ConverterIdle
    /\ GeneListIdle
    /\ OmnipathIdle
    /\ FoldersIdle
    /\ ChangelogIdle

ColumnsOthers ==
    <<tableVars, moduleVars, pathwayVars, launchVars, converterVars,
      geneListVars, omnipathVars,
      foldersVars, changelogVars>>

\* gene_set_fisher.py main, lines 342-346 and 382-384: load_gene_data; an
\* exception makes main return 1.
GsfLoadGeneData ==
    /\ c_pc = "start"
    /\ c_script = "gene_set_fisher"
    /\ c_result' = load_gene_data(c_df)
    /\ IF load_gene_data(c_df).status = "ok"
       THEN c_pc' = "loaded" /\ UNCHANGED c_exit
       ELSE c_pc' = "exited" /\ c_exit' = 1
    /\ UNCHANGED <<c_script, c_kinds, c_df, c_output, ColumnsOthers>>

\* gene_set_fisher.py main, lines 348-384: both tests and save_results.
GsfTestAndSave ==
    /\ c_pc = "loaded"
    /\ c_script = "gene_set_fisher"
    /\ LET up == pathway_enrichment_test(c_result.upregulated,
                     c_result.pathway, c_result.background)
           down == pathway_enrichment_test(c_result.downregulated,
                       c_result.pathway, c_result.background)
       IN  IF up.status = "ok" /\ down.status = "ok"
           THEN /\ c_output' = to_csv(DataFrame(
                       <<SavedRow("up-regulated", up),
                         SavedRow("down-regulated", down)>>, SavedColumns))
                /\ c_exit' = 0
           ELSE /\ c_exit' = 1
                /\ UNCHANGED c_output
    /\ c_pc' = "exited"
    /\ UNCHANGED <<c_script, c_kinds, c_df, c_result, ColumnsOthers>>

\* module_enrichment_analysis.py main, line 344, and __main__, lines
\* 431-438: load_modules; its ValueError ends the process with status 1.
MeaLoadModules ==
    /\ c_pc = "start"
    /\ c_script = "module_enrichment_analysis"
    /\ c_result' = load_modules(c_df)
    /\ IF load_modules(c_df).status = "ok"
       THEN c_pc' = "loaded" /\ UNCHANGED c_exit
       ELSE c_pc' = "exited" /\ c_exit' = 1
    /\ UNCHANGED <<c_script, c_kinds, c_df, c_output, ColumnsOthers>>

\* module_enrichment_analysis.py main, lines 346-429, on the two modules of
\* the drawn file (SpecModule follows these lines step by step): the result
\* file is written and main returns.
MeaRest ==
    /\ c_pc = "loaded"
    /\ c_script = "module_enrichment_analysis"
    /\ c_output' = [written |-> TRUE, text |-> <<>>]
    /\ c_exit' = 0
    /\ c_pc' = "exited"
    /\ UNCHANGED <<c_script, c_kinds, c_df, c_result, ColumnsOthers>>

ColumnsNext ==
    \/ GsfLoadGeneData
    \/ GsfTestAndSave
    \/ MeaLoadModules
    \/ MeaRest

SpecColumns == ColumnsInit /\ [][ColumnsNext]_vars

----------------------------------------------------------------------------
(* SpecConverter: UniProtConverter of convert_uniprot_to_gene.py, called   *)
(* through convert_ids_batch.  An identifier is the sequence of its        *)
(* characters.  The remote API is the environment: each HTTP attempt       *)
(* either raises a RequestException or answers with a TSV table that has a *)
(* row for every accession of the request or for none.  u_log records the  *)
(* requests, the sleeps and the log records in the order the code makes    *)
(* them; u_seen collects the identifiers passed to convert_ids_batch.  The  *)
(* converter is built with verbose=True, so that not_found_ids is kept.    *)

Digits == <<"0", "1", "2", "3", "4", "5", "6", "7", "8", "9">>

IsDigit(c) == \E i \in 1..Len(Digits) : Digits[i] = c
IsUpper(c) == \E i \in 1..Len(UpperCase) : UpperCase[i] = c

\* `$`: the end of the string, or just before a final newline.
AtEnd(s, n) == Len(s) = n \/ (Len(s) = n + 1 /\ s[n + 1] = "\n")

\* [A-Z][A-Z0-9]{2}[0-9] at s[n+1..n+4]
PatternGroup(s, n) ==
    /\ Len(s) >= n + 4
    /\ IsUpper(s[n + 1])
    /\ \A i \in (n + 2)..(n + 3) : IsUpper(s[i]) \/ IsDigit(s[i])
    /\ IsDigit(s[n + 4])

\* UNIPROT_ID_PATTERN.match(id), line 53: `^A|B$` is (^A)|(B$), and match()
\* starts at the first character.  The first alternative
\* ^[OPQ][0-9][A-Z0-9]{3}[0-9] has no end anchor; the second is
\* [A-NR-Z][0-9]([A-Z][A-Z0-9]{2}[0-9]){1,2}$.
UNIPROT_ID_PATTERN_match(s) ==
    \/ /\ Len(s) >= 6
       /\ s[1] \in {"O", "P", "Q"}
       /\ IsDigit(s[2])
       /\ \A i \in 3..5 : IsUpper(s[i]) \/ IsDigit(s[i])
       /\ IsDigit(s[6])
    \/ /\ Len(s) >= 6
       /\ IsUpper(s[1]) /\ s[1] \notin {"O", "P", "Q"}
       /\ IsDigit(s[2])
       /\ \/ PatternGroup(s, 2) /\ AtEnd(s, 6)
          \/ PatternGroup(s, 2) /\ PatternGroup(s, 6) /\ AtEnd(s, 10)

\* `id and isinstance(id, str)`: identifiers are strings here; the empty one
\* is false.
IsNonEmptyStr(id) == id # <<>>

max_ids_per_request == 10
max_retries == 3

\* A dict is a function; dict.update(other).
EmptyDict == [x \in {} |-> x]
dict_update(d, other) == other @@ d

\* One TSV row of the answer: the accession and its gene names.
GeneSymbolOf(id) == <<"G", "_">> \o id
AliasOf(id) == <<"a", "_">> \o id
ResponseKinds == {"rows", "header_only"}
Response(kind, batch) ==
    IF kind = "rows"
    THEN [j \in 1..Len(batch) |->
             [accession |-> batch[j],
              gene_names |-> <<GeneSymbolOf(batch[j]), AliasOf(batch[j])>>]]
    ELSE <<>>

\* lines 248-266: the rows of the answer entered into result; the first gene
\* name is the symbol, a row without gene names maps the accession to itself.
parse_rows(result, rows) ==
    dict_update(result,
        [id \in {rows[j].accession : j \in 1..Len(rows)} |->
            LET j == Max({k \in 1..Len(rows) : rows[k].accession = id})
            IN  IF rows[j].gene_names = <<>> THEN id
                ELSE rows[j].gene_names[1]])

\* uniprot_ids[i:i+max_ids_per_request], i counted from 0.
batch_at(ids, i) ==
    SubSeq(ids, i + 1, IF i + max_ids_per_request < Len(ids)
                       THEN i + max_ids_per_request ELSE Len(ids))

\* An entry of u_log: an HTTP request with the accessions it asks for and its
\* outcome, a time.sleep with its seconds, or a warning or error log record.
Event(kind, ids, outcome, seconds) ==
    [call |-> u_calls + 1, batch |-> u_i, kind |-> kind, ids |-> ids,
     outcome |-> outcome, seconds |-> seconds]

\* The identifiers of the drawn calls: accessions, a gene symbol, an
\* accession with an isoform suffix, the empty string.
Accession(k) ==
    <<IF k <= Len(Digits) THEN "P" ELSE "Q", "1", "A", "B", "C",
      Digits[((k - 1) % Len(Digits)) + 1]>>
AllAccessions == [k \in 1..NumAccessions |-> Accession(k)]
str_TP53 == <<"T", "P", "5", "3">>
Isoform == Accession(1) \o <<"-", "2">>
EmptyId == <<>>

CallLists ==
    {<<str_TP53, Accession(1)>>,
     AllAccessions,
     <<Isoform, str_TP53>>,
     <<str_TP53, EmptyId, str_TP53, Accession(2)>>}

InitialStats ==
    [total_ids |-> 0, converted_ids |-> 0, already_gene_symbols |-> 0,
     failed_ids |-> 0, not_found_ids |-> <<>>]

ConverterInit ==
    /\ u_pc = "idle"
    /\ u_verbose = TRUE
    /\ u_cache = EmptyDict
    /\ u_stats = InitialStats
    /\ u_calls = 0
    /\ u_ids = <<>>
    /\ u_valid = <<>>
    /\ u_result = EmptyDict
    /\ u_i = 0
    /\ u_retry = 0
    /\ u_out = EmptyDict
    /\ u_log = <<>>
    /\ u_seen = {}
    /\ TableIdle
    /\ ModuleIdle
    /\ PathwayIdle
    /\ LaunchIdle
    /\ ColumnsIdle
    /\ GeneListIdle
    /\ OmnipathIdle
    /\ FoldersIdle
    /\ ChangelogIdle

ConverterOthers ==
    <<tableVars, moduleVars, pathwayVars, launchVars, columnsVars,
      geneListVars, omnipathVars,
      foldersVars, changelogVars>>

\* convert_ids_batch, lines 151-176 up to the call of
\* _query_uniprot_search_api.
ConvertIdsBatch ==
    /\ u_pc = "idle"
    /\ u_calls < MaxCalls
    /\ \E uniprot_ids \in CallLists :
          LET NotCached(id) == id \notin DOMAIN u_cache
              ids_to_query == SelectSeq(uniprot_ids, NotCached)
              IsValid(id) == IsNonEmptyStr(id) /\ UNIPROT_ID_PATTERN_match(id)
              IsSymbol(id) == IsNonEmptyStr(id) /\ ~UNIPROT_ID_PATTERN_match(id)
              valid_uniprot_ids == SelectSeq(ids_to_query, IsValid)
              potential_gene_symbols == SelectSeq(ids_to_query, IsSymbol)
          IN  /\ u_ids' = uniprot_ids
              /\ u_seen' = u_seen \cup Range(uniprot_ids)
              /\ u_valid' = valid_uniprot_ids
              /\ u_cache' = dict_update(u_cache,
                     [id \in Range(potential_gene_symbols) |-> id])
              /\ u_stats' = [u_stats EXCEPT
                     !.already_gene_symbols = @ + Len(potential_gene_symbols),
                     !.total_ids = @ + Len(valid_uniprot_ids)]
    /\ u_result' = EmptyDict
    /\ u_i' = 0
    /\ u_retry' = 0
    /\ u_pc' = "query"
    /\ UNCHANGED <<u_verbose, u_calls, u_out, u_log, ConverterOthers>>

\* The next batch starting at the last identifier of the batch before.
NextBatch_overlap ==
    /\ u_i' = u_i + max_ids_per_request - 1
    /\ u_retry' = 0

\* lines 279-280 and 217-238: the pause that ends a batch, then the next
\* batch with retry_count = 0.
NextBatch ==
    /\ u_i' = u_i + max_ids_per_request
    /\ u_retry' = 0

\* _query_uniprot_search_api, lines 241-269 and 280: an attempt that is
\* answered; the rows are parsed and the retry loop ends.
RequestAnswered ==
    /\ u_pc = "query"
    /\ u_i < Len(u_valid)
    /\ \E kind \in ResponseKinds :
          LET batch == batch_at(u_valid, u_i)
          IN  /\ u_result' = parse_rows(u_result, Response(kind, batch))
              /\ u_log' = u_log \o <<Event("request", batch, "answered", 0),
                                     Event("sleep", <<>>, "", 1)>>
    /\ NextBatch
    /\ UNCHANGED <<u_pc, u_verbose, u_cache, u_stats, u_calls, u_ids, u_valid,
                   u_out, u_seen, ConverterOthers>>

\* The retry loop without its bound.
RequestFailedRetry_unbounded ==
    /\ u_pc = "query"
    /\ u_i < Len(u_valid)
    /\ u_retry' = u_retry + 1
    /\ u_log' = u_log \o
          <<Event("request", batch_at(u_valid, u_i), "exception", 0),
            Event("warning", <<>>, "", 0),
            Event("sleep", <<>>, "", 2 * (u_retry + 1))>>
    /\ UNCHANGED <<u_pc, u_verbose, u_cache, u_stats, u_calls, u_ids, u_valid,
                   u_result, u_i, u_out, u_seen, ConverterOthers>>

\* lines 241-246 and 271-277: an attempt that raises a RequestException and
\* is not the last one; a warning, then time.sleep(2 * retry_count).
RequestFailedRetry ==
    /\ u_pc = "query"
    /\ u_i < Len(u_valid)
    /\ u_retry + 1 < max_retries
    /\ u_retry' = u_retry + 1
    /\ u_log' = u_log \o
          <<Event("request", batch_at(u_valid, u_i), "exception", 0),
            Event("warning", <<>>, "", 0),
            Event("sleep", <<>>, "", 2 * (u_retry + 1))>>
    /\ UNCHANGED <<u_pc, u_verbose, u_cache, u_stats, u_calls, u_ids, u_valid,
                   u_result, u_i, u_out, u_seen, ConverterOthers>>

\* The last failure ending the whole query instead of the batch.
RequestFailedLast_abort ==
    /\ u_pc = "query"
    /\ u_i < Len(u_valid)
    /\ u_retry + 1 >= max_retries
    /\ u_log' = u_log \o
          <<Event("request", batch_at(u_valid, u_i), "exception", 0),
            Event("error", <<>>, "", 0)>>
    /\ u_i' = Len(u_valid)
    /\ u_retry' = 0
    /\ UNCHANGED <<u_pc, u_verbose, u_cache, u_stats, u_calls, u_ids, u_valid,
                   u_result, u_out, u_seen, ConverterOthers>>

\* lines 241-246, 271-274 and 280: the attempt that brings retry_count to
\* max_retries; the error is logged, the batch is given up and the loop goes
\* on to the next batch.
RequestFailedLast ==
    /\ u_pc = "query"
    /\ u_i < Len(u_valid)
    /\ u_retry + 1 >= max_retries
    /\ u_log' = u_log \o
          <<Event("request", batch_at(u_valid, u_i), "exception", 0),
            Event("error", <<>>, "", 0),
            Event("sleep", <<>>, "", 1)>>
    /\ NextBatch
    /\ UNCHANGED <<u_pc, u_verbose, u_cache, u_stats, u_calls, u_ids, u_valid,
                   u_result, u_out, u_seen, ConverterOthers>>

\* The return without the fallback of line 198: only cached identifiers
\* get a key.
ConvertReturn_cache_only ==
    /\ u_pc = "query"
    /\ u_i >= Len(u_valid)
    /\ LET NotFound(id) == id \notin DOMAIN u_result
           not_found == SelectSeq(u_valid, NotFound)
           cache == IF u_valid # <<>> THEN dict_update(u_cache, u_result)
                    ELSE u_cache
           answered == {id \in Range(u_ids) : id \in DOMAIN cache}
       IN  /\ u_cache' = cache
           /\ u_stats' =
                 IF u_valid = <<>> THEN u_stats
                 ELSE [u_stats EXCEPT
                         !.converted_ids = @ + Cardinality(DOMAIN u_result),
                         !.failed_ids = @ + Len(u_valid)
                                          - Cardinality(DOMAIN u_result),
                         !.not_found_ids =
                             IF not_found # <<>> /\ u_verbose
                             THEN @ \o not_found ELSE @]
           /\ u_out' = [id \in answered |->
                           IF id \in DOMAIN cache THEN cache[id] ELSE id]
    /\ u_calls' = u_calls + 1
    /\ u_pc' = "idle"
    /\ UNCHANGED <<u_verbose, u_ids, u_valid, u_result, u_i, u_retry, u_log,
                   u_seen, ConverterOthers>>

\* convert_ids_batch, lines 176-200, from the return of
\* _query_uniprot_search_api (line 282).
ConvertReturn ==
    /\ u_pc = "query"
    /\ u_i >= Len(u_valid)
    /\ LET NotFound(id) == id \notin DOMAIN u_result
           not_found == SelectSeq(u_valid, NotFound)
           cache == IF u_valid # <<>> THEN dict_update(u_cache, u_result)
                    ELSE u_cache
           answered == {id \in Range(u_ids) :
                           id \in DOMAIN cache \/ IsNonEmptyStr(id)}
       IN  /\ u_cache' = cache
           /\ u_stats' =
                 IF u_valid = <<>> THEN u_stats
                 ELSE [u_stats EXCEPT
                         !.converted_ids = @ + Cardinality(DOMAIN u_result),
                         !.failed_ids = @ + Len(u_valid)
                                          - Cardinality(DOMAIN u_result),
                         !.not_found_ids =
                             IF not_found # <<>> /\ u_verbose
                             THEN @ \o not_found ELSE @]
           /\ u_out' = [id \in answered |->
                           IF id \in DOMAIN cache THEN cache[id] ELSE id]
    /\ u_calls' = u_calls + 1
    /\ u_pc' = "idle"
    /\ UNCHANGED <<u_verbose, u_ids, u_valid, u_result, u_i, u_retry, u_log,
                   u_seen, ConverterOthers>>

ConverterNext ==
    \/ ConvertIdsBatch
    \/ RequestAnswered
    \/ RequestFailedRetry
    \/ RequestFailedLast
    \/ ConvertReturn

SpecConverter == ConverterInit /\ [][ConverterNext]_vars

----------------------------------------------------------------------------
(* SpecGeneList: load_gene_list of module_enrichment_analysis.py read line *)
(* by line.  The file is the sequence of its lines, a line the sequence of *)
(* its characters without the line end.                                    *)

Whitespace == {" ", "\t", "\r", "\n"}

\* str.strip() cutting leading whitespace only.
RECURSIVE strip_leading_only(_)
strip_leading_only(s) ==
    IF s = <<>> THEN s
    ELSE IF s[1] \in Whitespace THEN strip_leading_only(Tail(s))
    ELSE s

\* str.strip(): leading and trailing whitespace removed.
RECURSIVE strip(_)
strip(s) ==
    IF s = <<>> THEN s
    ELSE IF s[1] \in Whitespace THEN strip(Tail(s))
    ELSE IF s[Len(s)] \in Whitespace THEN strip(SubSeq(s, 1, Len(s) - 1))
    ELSE s

\* The lines the drawn files are made of: empty, blank, a gene, a gene
\* wrapped in whitespace, a gene with a blank inside, a second gene.
GeneLines ==
    {<<>>, <<" ">>, <<"a">>, <<" ", "a", " ">>, <<"a", " ", "b">>, <<"b">>,
     <<"\t", "b">>}

RECURSIVE FilesOfLength(_)
FilesOfLength(n) ==
    IF n = 0 THEN {<<>>}
    ELSE {Append(f, l) : f \in FilesOfLength(n - 1), l \in GeneLines}

GeneListFiles == UNION {FilesOfLength(n) : n \in 0..MaxLines}

GeneListInit ==
    /\ g_pc = "open"
    /\ g_file \in GeneListFiles
    /\ g_pos = 1
    /\ g_genes = {}
    /\ g_template = FALSE
    /\ TableIdle
    /\ ModuleIdle
    /\ PathwayIdle
    /\ LaunchIdle
    /\ ColumnsIdle
    /\ ConverterIdle
    /\ OmnipathIdle
    /\ FoldersIdle
    /\ ChangelogIdle

GeneListOthers ==
    <<tableVars, moduleVars, pathwayVars, launchVars, columnsVars,
      converterVars, omnipathVars,
      foldersVars, changelogVars>>

\* lines 61-63: next(f) skips the first line.
SkipHeader ==
    /\ g_pc = "open"
    /\ g_file # <<>>
    /\ g_pos' = 2
    /\ g_pc' = "lines"
    /\ UNCHANGED <<g_file, g_genes, g_template, GeneListOthers>>

\* lines 63 and 67-70: next(f) on a file without a line raises
\* StopIteration; the handler shows the template and raises it again.
SkipHeaderEmptyFile ==
    /\ g_pc = "open"
    /\ g_file = <<>>
    /\ g_template' = TRUE
    /\ g_pc' = "raised"
    /\ UNCHANGED <<g_file, g_pos, g_genes, GeneListOthers>>

\* line 64: one line of the set comprehension.
ReadLine ==
    /\ g_pc = "lines"
    /\ g_pos <= Len(g_file)
    /\ g_genes' = IF strip(g_file[g_pos]) # <<>>
                  THEN g_genes \cup {strip(g_file[g_pos])}
                  ELSE g_genes
    /\ g_pos' = g_pos + 1
    /\ UNCHANGED <<g_pc, g_file, g_template, GeneListOthers>>

\* lines 65-66: return genes.
ReturnGenes ==
    /\ g_pc = "lines"
    /\ g_pos > Len(g_file)
    /\ g_pc' = "returned"
    /\ UNCHANGED <<g_file, g_pos, g_genes, g_template, GeneListOthers>>

GeneListNext ==
    \/ SkipHeader
    \/ SkipHeaderEmptyFile
    \/ ReadLine
    \/ ReturnGenes

SpecGeneList == GeneListInit /\ [][GeneListNext]_vars

----------------------------------------------------------------------------
(* OmnipathDownloader.download_interactions of                              *)
(* fetch_omnipath_interactions.py (SpecOmnipath)                            *)
(*                                                                         *)
(* Strings are sequences of one-character strings.  An interaction table   *)
(* is the sequence of its rows; a row is its number.  The file system is   *)
(* the set of directories that exist and the set of CSV files written.     *)

str_human == <<"h", "u", "m", "a", "n">>
str_Mouse == <<"M", "o", "u", "s", "e">>
str_yeast == <<"y", "e", "a", "s", "t">>
str_HUMAN == <<"H", "U", "M", "A", "N">>
str_MOUSE == <<"M", "O", "U", "S", "E">>
str_RAT == <<"R", "A", "T">>
str_Dorothea == <<"D", "o", "r", "o", "t", "h", "e", "a">>
str_dorothea == <<"d", "o", "r", "o", "t", "h", "e", "a">>
str_omnipath == <<"o", "m", "n", "i", "p", "a", "t", "h">>
str_bogus == <<"b", "o", "g", "u", "s">>
str_post_translational ==
    <<"p", "o", "s", "t", "_", "t", "r", "a", "n", "s", "l", "a", "t", "i",
      "o", "n", "a", "l">>
str_interactions ==
    <<"_", "i", "n", "t", "e", "r", "a", "c", "t", "i", "o", "n", "s", "_">>
str_csv == <<".", "c", "s", "v">>
str_data == <<"d", "a", "t", "a">>
str_out_slash == <<"o", "u", "t", "/">>
str_out == <<"o", "u", "t">>
str_new_slash == <<"n", "e", "w", "/">>
str_my_interactions_csv ==
    <<"m", "y", "_", "i", "n", "t", "e", "r", "a", "c", "t", "i", "o", "n",
      "s", ".", "c", "s", "v">>
str_getcwd == <<"/", "w", "o", "r", "k">>
str_T093322 ==
    <<"2", "0", "2", "5", "0", "6", "2", "3", "T", "0", "9", "3", "3", "2",
      "2">>
str_T093501 ==
    <<"2", "0", "2", "5", "0", "6", "2", "3", "T", "0", "9", "3", "5", "0",
      "1">>

\* str.upper(), per character.
upper_char(c) ==
    IF \E i \in 1..Len(LowerCase) : LowerCase[i] = c
    THEN UpperCase[CHOOSE i \in 1..Len(LowerCase) : LowerCase[i] = c]
    ELSE c
upper(s) == [i \in 1..Len(s) |-> upper_char(s[i])]

\* str.endswith(c) for a one-character suffix.
endswith(s, c) == s # <<>> /\ s[Len(s)] = c

\* The members of the Organism enumeration (help text of --organism).
Organism == {str_HUMAN, str_MOUSE, str_RAT}

\* lines 113-118: Organism[name.upper()], or ValueError.
get_organism_by_name_raises(name) == upper(name) \notin Organism

\* line 141: the values of InteractionDataset; lines 143-147 raise
\* ValueError for a name that is not one of them.
InteractionDataset == {"omnipath", "dorothea"}
get_datasets_by_names_raises(names) ==
    \E j \in 1..Len(names) : names[j] \notin InteractionDataset

\* line 61: the keys of DATASET_CLASSES are lower-case class names.
DATASET_CLASSES == {str_dorothea, str_omnipath}

\* An Optional[...] argument: None, or a value.
OmniNone == [given |-> FALSE, value |-> <<>>]
OmniSome(v) == [given |-> TRUE, value |-> v]
\* Python truth value of an Optional[str] or Optional[list].
OmniTruthy(a) == a.given /\ a.value # <<>>

\* The directories that exist, and os.getcwd().
Directories == {str_data, str_out, str_getcwd}
os_path_isdir(p) ==
    \/ p \in Directories
    \/ (endswith(p, "/") /\ SubSeq(p, 1, Len(p) - 1) \in Directories)

\* os.path.join(a, b) for a relative b.
os_path_join(a, b) ==
    IF a = <<>> \/ endswith(a, "/") THEN a \o b ELSE a \o <<"/">> \o b

\* os.path.dirname(p): what precedes the last "/".
os_path_dirname(p) ==
    LET slashes == {i \in 1..Len(p) : p[i] = "/"}
    IN  IF slashes = {} THEN <<>>
        ELSE LET last == CHOOSE i \in slashes : \A j \in slashes : j <= i
             IN  IF last = 1 THEN <<"/">> ELSE SubSeq(p, 1, last - 1)

\* line 269: DataFrame.to_csv(file_path) opens the file for writing, which
\* fails with OSError when the directory of file_path does not exist.
to_csv_raises(file_path) ==
    /\ os_path_dirname(file_path) # <<>>
    /\ ~os_path_isdir(os_path_dirname(file_path))

\* lines 248-253: file_prefix.
file_prefix(organism, dataset_type, specific_dataset) ==
    IF dataset_type = "specific" /\ OmniTruthy(specific_dataset)
    THEN lower(organism) \o <<"_">> \o lower(specific_dataset.value)
    ELSE IF dataset_type = "post_translational"
    THEN lower(organism) \o <<"_">> \o str_post_translational
    ELSE lower(organism) \o <<"_">> \o str_all

\* line 255: filename.
filename(a, timestamp) ==
    file_prefix(a.organism, a.dataset_type, a.specific_dataset)
        \o str_interactions \o timestamp \o str_csv

\* lines 258-260: output_file names a directory.
output_is_directory(output_file) ==
    os_path_isdir(output_file.value) \/ endswith(output_file.value, "/")

\* lines 258-266: file_path, when one of the branches assigns it.
file_path_assigned(a) ==
    ~OmniTruthy(a.output_file) \/ output_is_directory(a.output_file)
file_path(a, timestamp) ==
    IF OmniTruthy(a.output_file)
    THEN os_path_join(a.output_file.value, filename(a, timestamp))
    ELSE os_path_join(str_getcwd, filename(a, timestamp))

\* lines 288-307: the values of --organism, --dataset, --include, --exclude
\* and --output.
OrganismArgs == {str_human, str_Mouse, str_yeast}
DatasetArgs == {str_Dorothea, str_bogus, <<>>}
IncludeArgs ==
    {OmniNone, OmniSome(<<"omnipath", "dorothea">>),
     OmniSome(<<"omnipath", "bogus">>)}
ExcludeArgs == {OmniNone, OmniSome(<<"dorothea">>), OmniSome(<<"bogus">>)}
OutputArgs ==
    {OmniNone, OmniSome(<<>>), OmniSome(str_data), OmniSome(str_out_slash),
     OmniSome(str_new_slash), OmniSome(str_my_interactions_csv)}

\* lines 322-353: the four calls of download_interactions in main().
CallArgs(command, organism, dataset_type, dataset, include, exclude, output) ==
    [command |-> command, organism |-> organism,
     dataset_type |-> dataset_type, specific_dataset |-> dataset,
     include_datasets |-> include, exclude_datasets |-> exclude,
     output_file |-> output]
OmniCalls ==
    UNION {
        {CallArgs("download", o, "all", OmniNone, i, e, out) :
            i \in IncludeArgs, e \in ExcludeArgs}
        \cup {CallArgs("download-dataset", o, "specific", OmniSome(d),
                       OmniNone, OmniNone, out) : d \in DatasetArgs}
        \cup {CallArgs("download-all", o, "all", OmniNone, OmniNone,
                       OmniNone, out),
              CallArgs("download-pt", o, "post_translational", OmniNone,
                       OmniNone, OmniNone, out)}
        : o \in OrganismArgs, out \in OutputArgs}

\* datetime.now().strftime("%Y%m%dT%H%M%S") of line 246.
Timestamps == {str_T093322, str_T093501}

\* The tables a download can answer with: 0..MaxInteractions rows.
Tables == {[i \in 1..n |-> i] : n \in 0..MaxInteractions}

OmnipathInit ==
    /\ o_pc = "called"
    /\ o_args \in OmniCalls
    /\ o_interactions = <<>>
    /\ o_files = {}
    /\ o_printed = <<>>
    /\ o_return = OmniNone
    /\ o_error = "none"
    /\ TableIdle
    /\ ModuleIdle
    /\ PathwayIdle
    /\ LaunchIdle
    /\ ColumnsIdle
    /\ ConverterIdle
    /\ GeneListIdle
    /\ FoldersIdle
    /\ ChangelogIdle

OmnipathOthers ==
    <<tableVars, moduleVars, pathwayVars, launchVars, columnsVars,
      converterVars, geneListVars,
      foldersVars, changelogVars>>

\* lines 176 and 113-118: an organism name that is no member of Organism
\* raises ValueError out of download_interactions.
InvalidOrganism ==
    /\ o_pc = "called"
    /\ get_organism_by_name_raises(o_args.organism)
    /\ o_pc' = "raised"
    /\ o_error' = "ValueError"
    /\ UNCHANGED <<o_args, o_interactions, o_files, o_printed, o_return,
                   OmnipathOthers>>

\* lines 184-188: an unknown dataset name prints an error and returns an
\* empty table.
InvalidDataset ==
    /\ o_pc = "called"
    /\ ~get_organism_by_name_raises(o_args.organism)
    /\ o_args.dataset_type = "specific"
    /\ OmniTruthy(o_args.specific_dataset)
    /\ lower(o_args.specific_dataset.value) \notin DATASET_CLASSES
    /\ o_printed' = Append(o_printed, "Error: Invalid dataset name")
    /\ o_return' = OmniSome(<<>>)
    /\ o_pc' = "returned"
    /\ UNCHANGED <<o_args, o_interactions, o_files, o_error, OmnipathOthers>>

\* lines 208-221 and 143-147: an unknown name in --include or --exclude
\* raises ValueError.
InvalidFilter ==
    /\ o_pc = "called"
    /\ ~get_organism_by_name_raises(o_args.organism)
    /\ ~(o_args.dataset_type = "specific"
         /\ OmniTruthy(o_args.specific_dataset))
    /\ o_args.dataset_type # "post_translational"
    /\ \/ /\ OmniTruthy(o_args.include_datasets)
          /\ get_datasets_by_names_raises(o_args.include_datasets.value)
       \/ /\ OmniTruthy(o_args.exclude_datasets)
          /\ get_datasets_by_names_raises(o_args.exclude_datasets.value)
    /\ o_pc' = "raised"
    /\ o_error' = "ValueError"
    /\ UNCHANGED <<o_args, o_interactions, o_files, o_printed, o_return,
                   OmnipathOthers>>

\* lines 184-236: one of the three downloads answers with a table.
Download ==
    /\ o_pc = "called"
    /\ ~get_organism_by_name_raises(o_args.organism)
    /\ \/ /\ o_args.dataset_type = "specific"
          /\ OmniTruthy(o_args.specific_dataset)
          /\ lower(o_args.specific_dataset.value) \in DATASET_CLASSES
       \/ o_args.dataset_type = "post_translational"
       \/ /\ ~(o_args.dataset_type = "specific"
               /\ OmniTruthy(o_args.specific_dataset))
          /\ o_args.dataset_type # "post_translational"
          /\ OmniTruthy(o_args.include_datasets) =>
                ~get_datasets_by_names_raises(o_args.include_datasets.value)
          /\ OmniTruthy(o_args.exclude_datasets) =>
                ~get_datasets_by_names_raises(o_args.exclude_datasets.value)
    /\ \E table \in Tables : o_interactions' = table
    /\ o_printed' = Append(o_printed, "Downloaded")
    /\ o_pc' = "downloaded"
    /\ UNCHANGED <<o_args, o_files, o_return, o_error, OmnipathOthers>>

\* lines 238 and 272: an empty table is returned without a file.
ReturnEmpty ==
    /\ o_pc = "downloaded"
    /\ o_interactions = <<>>
    /\ o_return' = OmniSome(o_interactions)
    /\ o_pc' = "returned"
    /\ UNCHANGED <<o_args, o_interactions, o_files, o_printed, o_error,
                   OmnipathOthers>>

\* lines 238-272: the table is written to file_path and returned.
SaveAndReturn ==
    /\ o_pc = "downloaded"
    /\ o_interactions # <<>>
    /\ file_path_assigned(o_args)
    /\ \E timestamp \in Timestamps :
          /\ ~to_csv_raises(file_path(o_args, timestamp))
          /\ o_files' = o_files \cup
                {[path |-> file_path(o_args, timestamp),
                  rows |-> o_interactions]}
    /\ o_printed' = Append(Append(o_printed, "Columns"), "Data saved to")
    /\ o_return' = OmniSome(o_interactions)
    /\ o_pc' = "returned"
    /\ UNCHANGED <<o_args, o_interactions, o_error, OmnipathOthers>>

\* lines 258-263 and 269: output_file is given, is no directory and does
\* not end in "/": neither branch assigns file_path, and line 269 raises
\* UnboundLocalError.
SaveUnassignedPath ==
    /\ o_pc = "downloaded"
    /\ o_interactions # <<>>
    /\ ~file_path_assigned(o_args)
    /\ o_printed' = Append(o_printed, "Columns")
    /\ o_error' = "UnboundLocalError"
    /\ o_pc' = "raised"
    /\ UNCHANGED <<o_args, o_interactions, o_files, o_return,
                   OmnipathOthers>>

\* line 269: to_csv into a directory that does not exist raises OSError.
SaveMissingDirectory ==
    /\ o_pc = "downloaded"
    /\ o_interactions # <<>>
    /\ file_path_assigned(o_args)
    /\ \E timestamp \in Timestamps :
          to_csv_raises(file_path(o_args, timestamp))
    /\ o_printed' = Append(o_printed, "Columns")
    /\ o_error' = "OSError"
    /\ o_pc' = "raised"
    /\ UNCHANGED <<o_args, o_interactions, o_files, o_return,
                   OmnipathOthers>>

OmnipathNext ==
    \/ InvalidOrganism
    \/ InvalidDataset
    \/ InvalidFilter
    \/ Download
    \/ ReturnEmpty
    \/ SaveAndReturn
    \/ SaveUnassignedPath
    \/ SaveMissingDirectory

SpecOmnipath == OmnipathInit /\ [][OmnipathNext]_vars

----------------------------------------------------------------------------
(* folders_compare.py (SpecFolders)                                         *)
(*                                                                         *)
(* A directory is a function from entry names to entries.  An entry is a   *)
(* regular file, with its os.stat signature, its content and whether it    *)
(* can be opened, or a directory with its own entries.                     *)

FileEntry(stat, data, readable) ==
    [kind |-> "file", stat |-> stat, data |-> data, readable |-> readable,
     entries |-> <<>>]
DirEntry(entries) ==
    [kind |-> "dir", stat |-> 0, data |-> 0, readable |-> TRUE,
     entries |-> entries]
MissingEntry ==
    [kind |-> "missing", stat |-> 0, data |-> 0, readable |-> TRUE,
     entries |-> <<>>]

\* filecmp.DEFAULT_IGNORES and the hide list of filecmp.dircmp, the
\* defaults of the calls of lines 22 and 68.
DEFAULT_IGNORES ==
    {"RCS", "CVS", "tags", ".git", ".hg", ".bzr", "_darcs", "__pycache__"}
hide == {".", ".."}

\* dircmp.left_list / right_list: the listed names, filtered.
dir_list(d) == {n \in DOMAIN d : n \notin DEFAULT_IGNORES \cup hide}

\* dircmp.common, left_only, right_only.
common(l, r) == dir_list(l) \cap dir_list(r)
left_only(l, r) == dir_list(l) \ dir_list(r)
right_only(l, r) == dir_list(r) \ dir_list(l)

\* dircmp.common_dirs, common_files, common_funny.
common_dirs(l, r) ==
    {n \in common(l, r) : l[n].kind = "dir" /\ r[n].kind = "dir"}
common_files(l, r) ==
    {n \in common(l, r) : l[n].kind = "file" /\ r[n].kind = "file"}
common_funny(l, r) ==
    common(l, r) \ (common_dirs(l, r) \cup common_files(l, r))

\* filecmp.cmp with shallow=True, as dircmp calls it: equal os.stat
\* signatures make two files equal without reading them; otherwise the
\* contents are read, and a file that cannot be opened makes the pair funny.
cmp(a, b) ==
    IF a.stat = b.stat THEN "same"
    ELSE IF ~a.readable \/ ~b.readable THEN "funny"
    ELSE IF a.data = b.data THEN "same"
    ELSE "diff"

\* dircmp.same_files, diff_files, funny_files.
same_files(l, r) == {n \in common_files(l, r) : cmp(l[n], r[n]) = "same"}
diff_files(l, r) == {n \in common_files(l, r) : cmp(l[n], r[n]) = "diff"}
funny_files(l, r) == {n \in common_files(l, r) : cmp(l[n], r[n]) = "funny"}

\* lines 70-79: are_dirs_equal(dcmp).
RECURSIVE are_dirs_equal(_, _)
are_dirs_equal(l, r) ==
    IF \/ left_only(l, r) # {}
       \/ right_only(l, r) # {}
       \/ diff_files(l, r) # {}
       \/ funny_files(l, r) # {}
    THEN FALSE
    ELSE \A n \in common_dirs(l, r) :
            are_dirs_equal(l[n].entries, r[n].entries)

\* lines 64-81: quick_directory_comparison(dir1, dir2).
quick_directory_comparison(dir1, dir2) == are_dirs_equal(dir1, dir2)

\* lines 57-62: the value compare_directories_detailed returns.
identical(l, r) ==
    /\ left_only(l, r) = {}
    /\ right_only(l, r) = {}
    /\ diff_files(l, r) = {}
    /\ funny_files(l, r) = {}

\* lines 24-47: what report_comparison prints for one directory pair, as
\* records [level, what, names].
ReportLine(level, what, names) ==
    [level |-> level, what |-> what, names |-> names]
report_here(l, r, level) ==
    {ReportLine(level, "Only in left", left_only(l, r)) :
        x \in IF left_only(l, r) # {} THEN {1} ELSE {}}
    \cup {ReportLine(level, "Only in right", right_only(l, r)) :
        x \in IF right_only(l, r) # {} THEN {1} ELSE {}}
    \cup {ReportLine(level, "Different files", diff_files(l, r)) :
        x \in IF diff_files(l, r) # {} THEN {1} ELSE {}}
    \cup {ReportLine(level, "Identical files", same_files(l, r)) :
        x \in IF same_files(l, r) # {} THEN {1} ELSE {}}

\* lines 24-52: report_comparison(dcmp, level), with the subdirectories.
RECURSIVE report_comparison(_, _, _)
report_comparison(l, r, level) ==
    report_here(l, r, level)
    \cup {ReportLine(level, "Subdirectory", {n}) : n \in common_dirs(l, r)}
    \cup UNION {report_comparison(l[n].entries, r[n].entries, level + 1) :
                    n \in common_dirs(l, r)}

\* lines 15-62: compare_directories_detailed(dir1, dir2).
compare_directories_detailed(dir1, dir2) == identical(dir1, dir2)

\* The files and the names drawn.  Two files with one signature and two
\* contents, one with another signature, and one that cannot be opened.
FolderFiles ==
    {FileEntry(1, 1, TRUE), FileEntry(1, 2, TRUE), FileEntry(2, 2, TRUE),
     FileEntry(3, 2, FALSE)}
NamesAt(level) == IF level = 0 THEN {"a", "tags"} ELSE {"a"}

\* The directories with subdirectories nested at most MaxDepth deep.
RECURSIVE DirsAt(_)
DirsAt(level) ==
    LET below == IF level < MaxDepth
                 THEN {DirEntry(d) : d \in DirsAt(level + 1)}
                 ELSE {}
    IN  UNION {[S -> FolderFiles \cup below] : S \in SUBSET NamesAt(level)}

\* What DIR1 and DIR2 can name: a directory, a file, or nothing.
FolderPaths ==
    {DirEntry(d) : d \in DirsAt(0)}
    \cup {FileEntry(1, 1, TRUE), MissingEntry}

FoldersInit ==
    /\ f_pc = "start"
    /\ f_dir1 \in FolderPaths
    /\ f_dir2 \in FolderPaths
    /\ f_quick = "none"
    /\ f_detailed = "none"
    /\ f_printed = {}
    /\ f_exit = "none"
    /\ TableIdle
    /\ ModuleIdle
    /\ PathwayIdle
    /\ LaunchIdle
    /\ ColumnsIdle
    /\ ConverterIdle
    /\ GeneListIdle
    /\ OmnipathIdle
    /\ ChangelogIdle

FoldersOthers ==
    <<tableVars, moduleVars, pathwayVars, launchVars, columnsVars,
      converterVars, geneListVars, omnipathVars,
      changelogVars>>

\* lines 95-103: a path that is no directory ends the run with status 1.
InvalidPath ==
    /\ f_pc = "start"
    /\ f_dir1.kind # "dir" \/ f_dir2.kind # "dir"
    /\ f_exit' = "1"
    /\ f_pc' = "exited"
    /\ UNCHANGED <<f_dir1, f_dir2, f_quick, f_detailed, f_printed,
                   FoldersOthers>>

\* lines 106-108: the quick check finds the directories identical.
QuickIdentical ==
    /\ f_pc = "start"
    /\ f_dir1.kind = "dir" /\ f_dir2.kind = "dir"
    /\ quick_directory_comparison(f_dir1.entries, f_dir2.entries)
    /\ f_quick' = "True"
    /\ f_pc' = "exited"
    /\ f_exit' = "0"
    /\ UNCHANGED <<f_dir1, f_dir2, f_detailed, f_printed, FoldersOthers>>

\* lines 106-107 and 109-111: the quick check finds a difference.
QuickDiffer ==
    /\ f_pc = "start"
    /\ f_dir1.kind = "dir" /\ f_dir2.kind = "dir"
    /\ ~quick_directory_comparison(f_dir1.entries, f_dir2.entries)
    /\ f_quick' = "False"
    /\ f_pc' = "detailed"
    /\ UNCHANGED <<f_dir1, f_dir2, f_detailed, f_printed, f_exit,
                   FoldersOthers>>

\* line 112: compare_directories_detailed prints its report and returns.
Detailed ==
    /\ f_pc = "detailed"
    /\ f_printed' = report_comparison(f_dir1.entries, f_dir2.entries, 0)
    /\ f_detailed' =
          IF compare_directories_detailed(f_dir1.entries, f_dir2.entries)
          THEN "True" ELSE "False"
    /\ f_pc' = "exited"
    /\ f_exit' = "0"
    /\ UNCHANGED <<f_dir1, f_dir2, f_quick, FoldersOthers>>

FoldersNext ==
    \/ InvalidPath
    \/ QuickIdentical
    \/ QuickDiffer
    \/ Detailed

SpecFolders == FoldersInit /\ [][FoldersNext]_vars

----------------------------------------------------------------------------
(* generate_changelog.py (SpecChangelog)                                    *)
(*                                                                         *)
(* Strings are sequences of one-character strings.  The repository is the  *)
(* sequence of its commits, newest first, as `git log` lists them.         *)

\* str.split(sep) for a one-character separator.
RECURSIVE split(_, _)
split(s, sep) ==
    IF \A i \in 1..Len(s) : s[i] # sep THEN <<s>>
    ELSE LET i == Min({k \in 1..Len(s) : s[k] = sep})
         IN  <<SubSeq(s, 1, i - 1)>> \o split(SubSeq(s, i + 1, Len(s)), sep)

\* sep.join(parts)
RECURSIVE str_join(_, _)
str_join(parts, sep) ==
    IF parts = <<>> THEN <<>>
    ELSE IF Len(parts) = 1 THEN parts[1]
    ELSE parts[1] \o <<sep>> \o str_join(Tail(parts), sep)

\* The order of the characters that occur in a date.
DateChars == <<"-", "0", "1", "2", "3", "4", "5", "6", "7", "8", "9">>
ord(c) == CHOOSE i \in 1..Len(DateChars) : DateChars[i] = c

\* a < b for two strings, as sorted() compares them.
RECURSIVE str_less(_, _)
str_less(a, b) ==
    IF b = <<>> THEN FALSE
    ELSE IF a = <<>> THEN TRUE
    ELSE IF a[1] = b[1] THEN str_less(Tail(a), Tail(b))
    ELSE ord(a[1]) < ord(b[1])

\* sorted(keys) without reverse=True: the oldest date first.
RECURSIVE sorted_forward(_)
sorted_forward(keys) ==
    IF keys = {} THEN <<>>
    ELSE LET low == CHOOSE k \in keys :
                        \A other \in keys \ {k} : str_less(k, other)
         IN  <<low>> \o sorted_forward(keys \ {low})

\* sorted(keys, reverse=True)
RECURSIVE sorted_reverse(_)
sorted_reverse(keys) ==
    IF keys = {} THEN <<>>
    ELSE LET top == CHOOSE k \in keys :
                        \A other \in keys \ {k} : str_less(other, k)
         IN  <<top>> \o sorted_reverse(keys \ {top})

\* line 16: --pretty=format:%H%x09%an%x09%ad%x09%s, one line per commit.
format_commit(c) ==
    c.sha \o <<"\t">> \o c.author \o <<"\t">> \o c.date \o <<"\t">>
        \o c.message

\* lines 15-19: the standard output of git log; the lines are separated,
\* not terminated, by newlines.
git_log_stdout(log) ==
    str_join([i \in 1..Len(log) |-> format_commit(log[i])], "\n")

\* line 20: result.stdout.strip().split("\n")
get_git_log(log) == split(strip(git_log_stdout(log)), "\n")

\* line 25: the unpacking needs exactly four fields.
unpacks(line) == Len(split(line, "\t")) = 4

\* lines 23-29: group_commits_by_date; a dict from date to the list of
\* (sha, author, message) in the order of the lines.
group_commits_by_date(commits) ==
    LET fields(i) == split(commits[i], "\t")
        dates == {fields(i)[3] : i \in 1..Len(commits)}
        at(date) == SelectSeq([i \in 1..Len(commits) |-> fields(i)],
                              LAMBDA f : f[3] = date)
    IN  [date \in dates |->
            [k \in 1..Len(at(date)) |->
                <<at(date)[k][1], at(date)[k][2], at(date)[k][4]>>]]

\* The grave accent, a character a string of this language cannot hold.
Backtick == "grave"

\* sha[:7]
first7(sha) == SubSeq(sha, 1, IF Len(sha) < 7 THEN Len(sha) ELSE 7)

\* line 36: the entry "- message (author, sha[:7])", the hash between
\* grave accents.
entry_line(sha, author, message) ==
    <<"-", " ">> \o message \o <<" ", "(">> \o author
        \o <<",", " ", Backtick>> \o first7(sha) \o <<Backtick, ")">>

\* line 34: f"## {date}"
heading_line(date) == <<"#", "#", " ">> \o date

\* line 32: "# Changelog\n"
title_line == <<"#", " ", "C", "h", "a", "n", "g", "e", "l", "o", "g", "\n">>

\* lines 33-37: the lines of one date.
section_lines(grouped, date) ==
    <<heading_line(date)>>
    \o [k \in 1..Len(grouped[date]) |->
           entry_line(grouped[date][k][1], grouped[date][k][2],
                      grouped[date][k][3])]
    \o <<<<>>>>

\* lines 31-38: generate_changelog.
RECURSIVE sections(_, _)
sections(grouped, dates) ==
    IF dates = <<>> THEN <<>>
    ELSE section_lines(grouped, dates[1]) \o sections(grouped, Tail(dates))
generate_changelog(grouped) ==
    str_join(<<title_line>> \o sections(grouped,
                                        sorted_reverse(DOMAIN grouped)),
             "\n")

\* The commits drawn.  Commit i of the log has the hash Sha(i), of nine
\* characters; an author, a date and a subject, which may be empty, end in
\* a blank or contain a tab.
Sha(i) == <<"a", "b", "c", "d", "e", "f", Digits[i + 1], "0", Digits[i + 1]>>
Authors == {<<"A", "n", "n">>}
CommitDates ==
    {<<"2", "0", "2", "5", "-", "0", "6", "-", "0", "9">>,
     <<"2", "0", "2", "5", "-", "0", "6", "-", "1", "0">>,
     <<"2", "0", "2", "4", "-", "1", "2", "-", "3", "1">>}
Subjects == {<<"f", "i", "x">>, <<"a", "\t", "b">>, <<>>, <<"u", "p", " ">>}
GitLogs ==
    UNION {{[i \in 1..n |->
                [sha |-> Sha(i), author |-> f[i].author, date |-> f[i].date,
                 message |-> f[i].message]] :
            f \in [1..n -> [author : Authors, date : CommitDates,
                            message : Subjects]]} : n \in 0..MaxCommits}

ChangelogInit ==
    /\ cl_pc = "start"
    /\ cl_log \in GitLogs
    /\ cl_commits = <<>>
    /\ cl_grouped = <<>>
    /\ cl_changelog = <<>>
    /\ cl_file = NoFile
    /\ cl_error = "none"
    /\ TableIdle
    /\ ModuleIdle
    /\ PathwayIdle
    /\ LaunchIdle
    /\ ColumnsIdle
    /\ ConverterIdle
    /\ GeneListIdle
    /\ OmnipathIdle
    /\ FoldersIdle

ChangelogOthers ==
    <<tableVars, moduleVars, pathwayVars, launchVars, columnsVars,
      converterVars, geneListVars, omnipathVars, foldersVars>>

\* line 45: commits = get_git_log()
GetGitLog ==
    /\ cl_pc = "start"
    /\ cl_commits' = get_git_log(cl_log)
    /\ cl_pc' = "group"
    /\ UNCHANGED <<cl_log, cl_grouped, cl_changelog, cl_file, cl_error,
                   ChangelogOthers>>

\* line 46: grouped = group_commits_by_date(commits)
GroupCommits ==
    /\ cl_pc = "group"
    /\ \A i \in 1..Len(cl_commits) : unpacks(cl_commits[i])
    /\ cl_grouped' = group_commits_by_date(cl_commits)
    /\ cl_pc' = "generate"
    /\ UNCHANGED <<cl_log, cl_commits, cl_changelog, cl_file, cl_error,
                   ChangelogOthers>>

\* lines 46 and 25: a line without exactly four fields raises ValueError,
\* which nothing catches.
GroupValueError ==
    /\ cl_pc = "group"
    /\ \E i \in 1..Len(cl_commits) : ~unpacks(cl_commits[i])
    /\ cl_error' = "ValueError"
    /\ cl_pc' = "raised"
    /\ UNCHANGED <<cl_log, cl_commits, cl_grouped, cl_changelog, cl_file,
                   ChangelogOthers>>

\* line 47: changelog = generate_changelog(grouped)
GenerateChangelog ==
    /\ cl_pc = "generate"
    /\ cl_changelog' = generate_changelog(cl_grouped)
    /\ cl_pc' = "write"
    /\ UNCHANGED <<cl_log, cl_commits, cl_grouped, cl_file, cl_error,
                   ChangelogOthers>>

\* lines 48-49 and 40-42: write_changelog(changelog)
WriteChangelog ==
    /\ cl_pc = "write"
    /\ cl_file' = [written |-> TRUE, text |-> cl_changelog]
    /\ cl_pc' = "done"
    /\ UNCHANGED <<cl_log, cl_commits, cl_grouped, cl_changelog, cl_error,
                   ChangelogOthers>>

ChangelogNext ==
    \/ GetGitLog
    \/ GroupCommits
    \/ GroupValueError
    \/ GenerateChangelog
    \/ WriteChangelog

SpecChangelog == ChangelogInit /\ [][ChangelogNext]_vars

\* The calls and requests of SpecConverter with every request ending in an
\* answer or an exception, so that the loops go on.
SpecConverterLive == SpecConverter /\ WF_vars(ConverterNext)

----------------------------------------------------------------------------
(* Claims about the contingency table and the exact test (SpecTable) *)

TableInputsInBackground ==
    t_module \subseteq t_background /\ t_test \subseteq t_background

\* C1: for module and test set inside the background, the table (a, b, c, d)
\* of perform_fisher_test and of pathway_enrichment_test sums to the size of
\* the background and has no negative cell.
C1_TableSumsToBackground ==
    (t_pc = "done" /\ TableInputsInBackground) =>
        /\ \A r \in {t_out.first.fisher, t_out.second.fisher} :
              /\ r.contingency_table[1] + r.contingency_table[2]
                   + r.contingency_table[3] + r.contingency_table[4]
                 = Cardinality(t_background)
              /\ \A i \in 1..4 : r.contingency_table[i] >= 0
        /\ \A r \in {t_out.first.pathway, t_out.second.pathway} :
              /\ r.contingency_table[1] + r.contingency_table[2]
                   + r.contingency_table[3] + r.contingency_table[4]
                 = Cardinality(t_background)
              /\ \A i \in 1..4 : r.contingency_table[i] >= 0

\* A run with module and test set inside the background in which all four
\* cells are positive.
C1_Witness ==
    /\ t_pc = "done"
    /\ TableInputsInBackground
    /\ \A i \in 1..4 : t_out.first.fisher.contingency_table[i] > 0
    /\ \A i \in 1..4 : t_out.first.pathway.contingency_table[i] > 0

\* The cells as the sizes of the four regions of the background.
RegionCells ==
    <<Cardinality(t_test \cap t_module),
      Cardinality(t_test \ t_module),
      Cardinality(t_module \ t_test),
      Cardinality(t_background \ (t_test \cup t_module))>>

ExampleInputs ==
    /\ t_background = 1..10
    /\ t_module = {1, 2, 3}
    /\ t_test = {1, 2, 9}

\* C3: for module and test set inside the background the cells are
\* a = |T n M|, b = |T \ M|, c = |M \ T|, d = |U \ (T u M)| in both
\* functions, and the background G1..G10 with module {G1,G2,G3} and test set
\* {G1,G2,G9} gives a=2, b=1, c=1, d=6.
C3_CellsAreRegionSizes ==
    /\ (t_pc = "done" /\ TableInputsInBackground) =>
           /\ t_out.first.fisher.contingency_table = RegionCells
           /\ t_out.first.pathway.contingency_table = RegionCells
    /\ (t_pc = "done" /\ ExampleInputs) =>
           /\ t_out.first.fisher.contingency_table = <<2, 1, 1, 6>>
           /\ t_out.first.pathway.contingency_table = <<2, 1, 1, 6>>

\* The example of the specification has been run.
C3_Witness == t_pc = "done" /\ ExampleInputs

\* C4: the result of a (module, test set, background) triple -- overlap
\* count, table, p-value, odds ratio and set of overlapping genes -- is the
\* same whatever the order of the identifiers in the input lists and however
\* often each is repeated.
C4_ResultIgnoresArrangement ==
    t_pc = "done" =>
        /\ t_out.second.fisher = t_out.first.fisher
        /\ t_out.second.pathway = t_out.first.pathway

\* Lists of two and three identifiers, reversed or repeated, with a
\* non-empty overlap.
C4_Witness ==
    /\ t_pc = "done"
    /\ t_arrangement # "ascending"
    /\ Cardinality(t_test) >= 2
    /\ Cardinality(t_module) >= 2
    /\ t_out.second.fisher.overlap_count >= 1
    /\ t_out.second.pathway.genes_in_pathway >= 1

RECURSIVE HypergeomSfWays(_, _, _, _)
\* The number of ways to draw N from M, of which n are marked, with at
\* least k marked ones drawn.
HypergeomSfWays(k, M, n, N) ==
    IF k > N THEN 0
    ELSE HypergeomWays(k, M, n, N) + HypergeomSfWays(k + 1, M, n, N)

\* With the margins of (a, b, c, d) fixed, the probability that the first
\* cell is at least a: a + b genes drawn from a + b + c + d, of which a + c
\* belong to the module.
UpperTail(tab) ==
    Frac(HypergeomSfWays(tab[1], tab[1] + tab[2] + tab[3] + tab[4],
                         tab[1] + tab[3], tab[1] + tab[2]),
         Choose(tab[1] + tab[2] + tab[3] + tab[4], tab[1] + tab[2]))

\* C5: the p-value of both functions is the one-sided 'greater' Fisher
\* value, the hypergeometric probability (margins fixed) of an overlap of at
\* least a; it lies in [0, 1] and is 1 when a = 0.
C5_PValueIsUpperTail ==
    t_pc = "done" =>
        \A r \in {t_out.first.fisher, t_out.first.pathway} :
            r.status = "ok" =>
                /\ FracEq(r.p_value, UpperTail(r.contingency_table))
                /\ r.p_value.den > 0
                /\ 0 <= r.p_value.num
                /\ r.p_value.num <= r.p_value.den
                /\ (r.contingency_table[1] = 0 => r.p_value.num = r.p_value.den)

\* A table with a = 0 and no empty margin has been evaluated by both
\* functions and its p-value is 1.
C5_Witness ==
    /\ t_pc = "done"
    /\ \A r \in {t_out.first.fisher, t_out.first.pathway} :
          /\ r.status = "ok"
          /\ r.contingency_table[1] = 0
          /\ \A i \in 2..4 : r.contingency_table[i] > 0
          /\ r.p_value.num = r.p_value.den

----------------------------------------------------------------------------
(* Claim about both scripts (SpecModule, SpecPathway) *)

NonNegative(tab) == \A i \in 1..4 : tab[i] >= 0

\* C2: in both scripts every gene set that reaches the contingency table,
\* the test/query set and the module/pathway set, lies inside the
\* background, and no cell of a computed table is negative (stated for the
\* pathway script on files whose background column is not empty).
C2_CountedSetsInsideBackground ==
    /\ m_pc \in {"loop", "sort", "significant", "summary", "exited"} =>
          /\ query_genes \subseteq background_genes
          /\ \A i \in 1..Len(fisher_calls) :
                /\ fisher_calls[i].module_genes \subseteq background_genes
                /\ NonNegative(fisher_calls[i].contingency_table)
    /\ (p_pc \in {"test_down", "save", "exited"} /\ p_background # {}) =>
          /\ p_up \subseteq p_background
          /\ p_pathway \cap p_background \subseteq p_background
          /\ NonNegative(up_result.contingency_table)
    /\ (/\ p_pc = "save" \/ (p_pc = "exited" /\ up_result.status = "ok")
        /\ p_background # {}) =>
          /\ p_down \subseteq p_background
          /\ NonNegative(down_result.contingency_table)

----------------------------------------------------------------------------
(* Claims about the module script (SpecModule) *)

ModuleLoaded == m_pc \in {"loop", "sort", "significant", "summary", "exited"}

\* The rows a reader of the primary / secondary file gets.
PrimaryRows == read_csv(output_csv.text).rows
SecondaryRows == read_csv(sig_csv.text).rows

\* The Members field of the first row that carries the ID.
FirstMembers(module_id) ==
    LET i == CHOOSE k \in 1..Len(module_df.rows) :
                 /\ module_df.rows[k]["ID"] = module_id
                 /\ \A j \in 1..(k - 1) : module_df.rows[j]["ID"] # module_id
    IN  module_df.rows[i]["Members"]

Count(seq, x) == Cardinality({i \in 1..Len(seq) : seq[i] = x})

\* C6: in the primary file every FDR value is at least the raw p-value and
\* at most 1, and the FDR values do not decrease along the rows, which are
\* in ascending order of p-value.
C6_FdrDominatesAndIsMonotone ==
    output_csv.written =>
        LET rows == PrimaryRows
        IN  /\ \A i \in 1..Len(rows) :
                  /\ FracLeq(rows[i]["p_value"], rows[i]["fdr"])
                  /\ FracLeq(rows[i]["fdr"], FracOne)
            /\ \A i, j \in 1..Len(rows) :
                  i < j =>
                     /\ FracLeq(rows[i]["p_value"], rows[j]["p_value"])
                     /\ FracLeq(rows[i]["fdr"], rows[j]["fdr"])

\* Two modules with different p-values where the running minimum decides:
\* the smaller one's FDR is below p * m / 1 and below 1.
C6_Witness ==
    /\ output_csv.written
    /\ Len(PrimaryRows) >= 2
    /\ FracLess(PrimaryRows[1]["p_value"], PrimaryRows[2]["p_value"])
    /\ FracLess(PrimaryRows[1]["fdr"],
                Frac(PrimaryRows[1]["p_value"].num * Len(PrimaryRows),
                     PrimaryRows[1]["p_value"].den))
    /\ FracLess(PrimaryRows[1]["fdr"], FracOne)

\* C7: a module whose Members field (that of the first row with its ID) is
\* empty or missing is never given to perform_fisher_test, is in neither
\* output file, and has exactly one warning once the loop has passed it.
C7_EmptyModuleSkipped ==
    ModuleLoaded =>
        \A k \in 1..Len(unique_modules) :
            FirstMembers(unique_modules[k]) = NaNMembers =>
                /\ \A i \in 1..Len(fisher_calls) :
                      fisher_calls[i].module_id # unique_modules[k]
                /\ \A i \in 1..Len(results) :
                      results[i]["module_id"] # unique_modules[k]
                /\ output_csv.written =>
                      LET rows == PrimaryRows
                      IN  \A i \in 1..Len(rows) :
                              rows[i]["module_id"] # unique_modules[k]
                /\ sig_csv.written =>
                      LET rows == SecondaryRows
                      IN  \A i \in 1..Len(rows) :
                              rows[i]["module_id"] # unique_modules[k]
                /\ Count(warnings, NoGenesWarning(unique_modules[k]))
                      = IF k < m_idx THEN 1 ELSE 0

\* A finished run with the primary file written in which one module was
\* skipped and another tested.
C7_Witness ==
    /\ m_pc = "exited"
    /\ exit_status = 0
    /\ output_csv.written
    /\ \E k \in 1..Len(unique_modules) :
          FirstMembers(unique_modules[k]) = NaNMembers
    /\ Len(fisher_calls) >= 1

\* C8: skipping modules without genes is not an error: whatever number of
\* modules is skipped, all of them included, a run that skipped a module and
\* in which no test failed ends with status 0 and the primary file written.
C8_SkippingIsNotAnError ==
    (/\ m_pc = "exited"
     /\ \E i \in 1..Len(warnings) : warnings[i].kind = "no_genes"
     /\ Len(results) = Len(fisher_calls)) =>
        /\ exit_status = 0
        /\ output_csv.written

\* C9: the rows of the primary file are in ascending order of p-value, and
\* reading the written file back gives as many rows as there are results,
\* still in ascending order.
C9_PrimarySortedAndRoundTrips ==
    output_csv.written =>
        LET rows == PrimaryRows
            p_col == ColumnIndex(ResultColumns, "p_value")
        IN  /\ Len(rows) = Len(results)
            /\ Len(rows) = Len(results_df.rows)
            /\ \A i \in 2..(Len(output_csv.text) - 1) :
                  FracLeq(output_csv.text[i].cells[p_col],
                          output_csv.text[i + 1].cells[p_col])
            /\ \A i \in 1..(Len(rows) - 1) :
                  FracLeq(rows[i]["p_value"], rows[i + 1]["p_value"])
            /\ rows = results_df.rows

\* A primary file of two rows with different p-values, computed in the
\* other order.
C9_Witness ==
    /\ output_csv.written
    /\ Len(results) = 2
    /\ FracLess(results[2]["p_value"], results[1]["p_value"])
    /\ PrimaryRows[1]["module_id"] = results[2]["module_id"]

BelowThreshold(r) == r["p_value"].num * 100 < 5 * r["p_value"].den
AtThreshold(r) == r["p_value"].num * 100 = 5 * r["p_value"].den

\* C10: the secondary file is written only when some tested module has a
\* p-value below 0.05; its rows are the rows of the primary file with a
\* p-value strictly below 0.05, in the same order; a row with p-value 0.05
\* is not among them.
C10_SecondaryIsStrictFilter ==
    /\ sig_csv.written => output_csv.written
    /\ (m_pc \in {"summary", "exited"} /\ output_csv.written) =>
          LET primary == PrimaryRows
              below == SelectSeq(primary, BelowThreshold)
          IN  /\ sig_csv.written <=> below # <<>>
              /\ sig_csv.written =>
                    LET secondary == SecondaryRows
                    IN  /\ secondary = below
                        /\ \A i \in 1..Len(secondary) :
                              ~AtThreshold(secondary[i])

\* A secondary file that holds one of the two rows of the primary file.
C10_Witness ==
    /\ m_pc = "exited"
    /\ sig_csv.written
    /\ Len(SecondaryRows) = 1
    /\ Len(PrimaryRows) = 2

----------------------------------------------------------------------------
(* Claims about the start of both scripts (SpecLaunch) *)

PathsResolved == l_pc \in {"resolved", "loaded", "exited"} /\ l_printed # {"help"}

RequiredInputs ==
    IF l_script = "module_enrichment_analysis"
    THEN {"gene_file", "module_file"}
    ELSE {"input_file"}

RequiredPaths ==
    IF l_script = "module_enrichment_analysis"
    THEN {"gene_file", "module_file", "output_file"}
    ELSE {"input_file"}

TemplateOf(k) ==
    CASE k = "gene_file" -> "GENE LIST TEMPLATE:"
      [] k = "module_file" -> "MODULE FILE TEMPLATE (CSV):"
      [] k = "input_file" -> "Expected input file format:"

MissingInputs ==
    {k \in RequiredInputs : Truthy(l_paths[k]) /\ ~exists(l_paths[k])}

FatalWithTemplate ==
    /\ l_loaded = {}
    /\ l_tests = {}
    /\ l_written = {}
    /\ l_pc # "loaded"
    /\ l_pc = "exited" =>
          /\ l_exit # 0
          /\ \A k \in MissingInputs : TemplateOf(k) \in l_printed

\* C11 as stated: in both scripts, whenever the path of a required input
\* file names no existing file, the template of the expected file is
\* printed, nothing is loaded, no test is computed, no output file is written
\* and the exit status is not 0.
C11_MissingInputIsFatal ==
    (PathsResolved /\ MissingInputs # {}) => FatalWithTemplate

\* C11 amended: the same, for runs in which every required path is given
\* (gene list, module file and output for the module script; input for the
\* pathway script).  With a path left out the module script stops earlier
\* with the list of missing paths and prints no file template.
C11_MissingInputIsFatalOncePathsGiven ==
    (/\ PathsResolved
     /\ MissingInputs # {}
     /\ \A k \in RequiredPaths : Truthy(l_paths[k])) => FatalWithTemplate

C11_Witness ==
    /\ l_script = "module_enrichment_analysis"
    /\ PathsResolved
    /\ l_pc = "exited"
    /\ MissingInputs = {"module_file"}
    /\ \A k \in RequiredPaths : Truthy(l_paths[k])
    /\ "MODULE FILE TEMPLATE (CSV):" \in l_printed
    /\ "GENE LIST TEMPLATE:" \notin l_printed
    /\ l_exit = 1

FlagOf(k) ==
    CASE k = "gene_file" -> l_args.gene_list
      [] k = "module_file" -> l_args.module_file
      [] k = "input_file" -> l_args.input
      [] k = "output_file" -> l_args.output

EnvOf(k) ==
    CASE k = "gene_file" -> l_env.GENE_LIST_FILE
      [] k = "module_file" -> l_env.MODULE_FILE
      [] k = "input_file" -> l_env.INPUT_FILE
      [] k = "output_file" -> l_env.OUTPUT_FILE

\* The file that a path names: its last component.
NameOf(p) == IF p.parts = <<>> THEN "" ELSE p.parts[Len(p.parts)]

\* C14: for every path option of both scripts, a flag that is given on the
\* command line is the path used, whatever the option's environment variable
\* holds, and the file named by the environment variable is used only when
\* the flag is absent.
C14_FlagOverridesEnvironment ==
    PathsResolved =>
        \A k \in DOMAIN l_paths :
            /\ FlagOf(k).given => l_paths[k].parts = FlagOf(k).parts
            /\ (Truthy(EnvOf(k)) /\ NameOf(l_paths[k]) = NameOf(EnvOf(k)))
                  => ~FlagOf(k).given

----------------------------------------------------------------------------
(* Claims about the column checks (SpecColumns) *)

RequiredName(col) ==
    CASE col = "background" -> str_background
      [] col = "up_regulated" -> str_up_regulated
      [] col = "down_regulated" -> str_down_regulated
      [] col = "pathway" -> str_pathway
      [] col = "ID" -> str_ID
      [] col = "process_name" -> str_process_name
      [] col = "Members" -> str_Members

ColumnsLoadDone == c_pc \in {"loaded", "exited"}

\* C12: load_gene_data returns the four gene sets of the file whenever each
\* of the four required columns is present under its exact name, under a
\* variant in letter case or separator, or under its synonym (up, down, all,
\* gene_set), whatever the mix of exact and variant names.
C12_AliasedColumnsAreLoaded ==
    (/\ c_script = "gene_set_fisher"
     /\ ColumnsLoadDone
     /\ \A col \in DOMAIN c_kinds : c_kinds[col] # "absent") =>
        /\ c_result.status = "ok"
        /\ c_result.background = dropna_set(PathwayCells.background)
        /\ c_result.upregulated = dropna_set(PathwayCells.up_regulated)
        /\ c_result.downregulated = dropna_set(PathwayCells.down_regulated)
        /\ c_result.pathway = dropna_set(PathwayCells.pathway)

\* The required columns the input file does not hold: for the pathway input
\* a column that stands under no name at all, for the module file a column
\* that does not stand under its exact name.
AbsentColumns ==
    IF c_script = "gene_set_fisher"
    THEN {col \in DOMAIN c_kinds : c_kinds[col] = "absent"}
    ELSE {col \in DOMAIN c_kinds : c_kinds[col] # "exact"}

\* C13: when a required column is absent from the input of either script,
\* loading raises a ValueError whose message names the absent columns, the
\* template of the expected format is shown, no output file is written and
\* the exit status is not 0.
C13_MissingColumnIsFatal ==
    (ColumnsLoadDone /\ AbsentColumns # {}) =>
        /\ c_pc = "exited"
        /\ c_result.status = "ValueError"
        /\ \A col \in AbsentColumns : RequiredName(col) \in Range(c_result.named)
        /\ c_result.templates >= 1
        /\ c_output = NoFile
        /\ c_exit # 0

C13_Witness ==
    /\ c_script = "gene_set_fisher"
    /\ c_pc = "exited"
    /\ c_kinds.background = "exact"
    /\ c_kinds.up_regulated = "variant"
    /\ c_kinds.down_regulated = "absent"
    /\ c_kinds.pathway = "exact"
    /\ c_result.status = "ValueError"
    /\ c_result.named = <<str_down_regulated>>
    /\ c_exit = 1

----------------------------------------------------------------------------
(* Claims about the identifier converter (SpecConverter) *)

\* The UniProt accession format the pattern of line 53 is written for: the
\* whole identifier is [OPQ][0-9][A-Z0-9]{3}[0-9] or
\* [A-NR-Z][0-9]([A-Z][A-Z0-9]{2}[0-9]){1,2}.
IsAccession(s) ==
    \/ /\ Len(s) = 6
       /\ s[1] \in {"O", "P", "Q"}
       /\ IsDigit(s[2])
       /\ \A i \in 3..5 : IsUpper(s[i]) \/ IsDigit(s[i])
       /\ IsDigit(s[6])
    \/ /\ Len(s) \in {6, 10}
       /\ IsUpper(s[1]) /\ s[1] \notin {"O", "P", "Q"}
       /\ IsDigit(s[2])
       /\ \A g \in {2, 6} : g < Len(s) =>
             /\ IsUpper(s[g + 1])
             /\ IsUpper(s[g + 2]) \/ IsDigit(s[g + 2])
             /\ IsUpper(s[g + 3]) \/ IsDigit(s[g + 3])
             /\ IsDigit(s[g + 4])

Requests == {k \in DOMAIN u_log : u_log[k].kind = "request"}

\* The identifiers sent to the API, each counted once per call.
RequestedIds == UNION {Range(u_log[k].ids) : k \in Requests}
RequestedOnce ==
    {<<c, id>> \in (1..MaxCalls) \X RequestedIds :
        \E k \in Requests : u_log[k].call = c /\ id \in Range(u_log[k].ids)}

NonAccessionsSeen == {id \in u_seen : IsNonEmptyStr(id) /\ ~IsAccession(id)}

\* C15: an identifier that is not a UniProt accession is never part of a
\* request to the remote API, is mapped to itself in the result of
\* convert_ids_batch, and is counted in already_gene_symbols, not in
\* total_ids.
C15_NonAccessionPassedThrough ==
    /\ \A id \in NonAccessionsSeen :
          /\ \A k \in Requests : id \notin Range(u_log[k].ids)
          /\ (u_pc = "idle" /\ id \in Range(u_ids)) =>
                id \in DOMAIN u_out /\ u_out[id] = id
    /\ u_stats.already_gene_symbols >= Cardinality(NonAccessionsSeen)
    /\ u_pc = "idle" => u_stats.total_ids = Cardinality(RequestedOnce)

\* The request batches that appear in the log, as <<call, offset>>, and the
\* log positions of one batch.
LoggedBatches == {<<u_log[k].call, u_log[k].batch>> : k \in DOMAIN u_log}
EventsOf(cb) ==
    {k \in DOMAIN u_log : u_log[k].call = cb[1] /\ u_log[k].batch = cb[2]}
AttemptsOf(cb) == {k \in EventsOf(cb) : u_log[k].kind = "request"}
FailuresOf(cb) == {k \in AttemptsOf(cb) : u_log[k].outcome = "exception"}

\* Two attempts of one batch with no attempt between them, and the wait
\* between them.
Consecutive(cb, k1, k2) ==
    /\ k1 \in AttemptsOf(cb) /\ k2 \in AttemptsOf(cb) /\ k1 < k2
    /\ \A k \in AttemptsOf(cb) : ~(k1 < k /\ k < k2)
RECURSIVE SumSeconds(_)
SumSeconds(K) ==
    IF K = {} THEN 0
    ELSE LET k == CHOOSE x \in K : TRUE
         IN  u_log[k].seconds + SumSeconds(K \ {k})
WaitBetween(k1, k2) ==
    SumSeconds({k \in DOMAIN u_log :
                   k1 < k /\ k < k2 /\ u_log[k].kind = "sleep"})

\* At most 3 attempts per batch, a new attempt only after an exception, a
\* wait before every retry and each wait longer than the one before.
BoundedBackoff(cb) ==
    LET attempts == AscSeq(AttemptsOf(cb))
        n == Len(attempts)
        wait == [j \in 1..(n - 1) |-> WaitBetween(attempts[j], attempts[j + 1])]
    IN  /\ n <= 3
        /\ \A j \in 1..(n - 1) : u_log[attempts[j]].outcome = "exception"
        /\ \A j \in 1..(n - 1) : wait[j] > 0
        /\ \A j \in 1..(n - 2) : wait[j] < wait[j + 1]

GivenUp(cb) == Cardinality(FailuresOf(cb)) = 3

\* C16 as stated: per request batch at most 3 HTTP attempts, a new attempt
\* only after a network exception, every retry wait longer than the one
\* before, the first answered attempt ends the loop, and after the third
\* failure neither an attempt nor a sleep follows.
C16_ThreeAttemptsThenNothing ==
    \A cb \in LoggedBatches :
        /\ BoundedBackoff(cb)
        /\ GivenUp(cb) =>
              LET third == Max(FailuresOf(cb))
              IN  \A k \in EventsOf(cb) :
                      k > third => u_log[k].kind \notin {"request", "sleep"}

\* C16 amended: the same, except that after the third failure no attempt and
\* no retry wait follows: the only sleep left is the fixed one-second pause
\* with which every batch ends, failed or not.
C16_ThreeAttemptsThenPause ==
    \A cb \in LoggedBatches :
        /\ BoundedBackoff(cb)
        /\ GivenUp(cb) =>
              LET third == Max(FailuresOf(cb))
                  last == Max(EventsOf(cb))
              IN  \A k \in EventsOf(cb) :
                      k > third =>
                          /\ u_log[k].kind # "request"
                          /\ u_log[k].kind = "sleep" =>
                                u_log[k].seconds = 1 /\ k = last

C16_Witness ==
    \E cb \in LoggedBatches :
        /\ GivenUp(cb)
        /\ \E k1, k2, k3 \in AttemptsOf(cb) :
              /\ Consecutive(cb, k1, k2) /\ Consecutive(cb, k2, k3)
              /\ WaitBetween(k1, k2) = 2
              /\ WaitBetween(k2, k3) = 4
        /\ u_log[Max(EventsOf(cb))].kind = "sleep"
        /\ u_pc = "idle"

\* The accessions asked for in a batch.
IdsOf(cb) == u_log[Min(AttemptsOf(cb))].ids

RECURSIVE SumSizes(_)
SumSizes(B) ==
    IF B = {} THEN 0
    ELSE LET cb == CHOOSE x \in B : TRUE
         IN  Len(IdsOf(cb)) + SumSizes(B \ {cb})

GivenUpBatches == {cb \in LoggedBatches : GivenUp(cb)}

\* C17: when every attempt of a batch has failed, the error is logged and
\* only that batch is skipped: each later batch of the call is still
\* requested, the call returns, the identifiers of the skipped batch keep
\* their own value in the result, and they are counted in failed_ids.
C17_FailedBatchIsSkipped ==
    u_pc = "idle" =>
        /\ \A cb \in GivenUpBatches :
              /\ \E k \in EventsOf(cb) : u_log[k].kind = "error"
              /\ cb[1] = u_calls =>
                    /\ \A b \in 0..Len(u_valid) :
                          (b > cb[2] /\ b < Len(u_valid) /\ b % 10 = 0) =>
                              AttemptsOf(<<cb[1], b>>) # {}
                    /\ \A id \in Range(IdsOf(cb)) :
                          id \in DOMAIN u_out /\ u_out[id] = id
        /\ u_stats.failed_ids >= SumSizes(GivenUpBatches)

C17_Witness ==
    /\ u_pc = "idle"
    /\ u_calls = 1
    /\ GivenUp(<<1, 0>>)
    /\ \E k \in AttemptsOf(<<1, 10>>) : u_log[k].outcome = "answered"
    /\ u_out[Accession(1)] = Accession(1)
    /\ u_out[Accession(NumAccessions)] = GeneSymbolOf(Accession(NumAccessions))
    /\ u_stats.failed_ids = 10

\* C18: every identifier passed to convert_ids_batch is in the cache when
\* the call has returned, and no identifier is sent to the remote API by two
\* different calls.
C18_SeenIdsAreCached ==
    /\ u_pc = "idle" =>
          \A id \in u_seen : IsNonEmptyStr(id) => id \in DOMAIN u_cache
    /\ \A k1, k2 \in Requests :
          u_log[k1].call < u_log[k2].call =>
              Range(u_log[k1].ids) \cap Range(u_log[k2].ids) = {}

\* The other half of C18, which the code keeps: a cache entry is never
\* removed or changed.
CacheEntriesKept ==
    [][\A id \in DOMAIN u_cache :
          id \in DOMAIN u_cache' /\ u_cache'[id] = u_cache[id]]_vars

----------------------------------------------------------------------------
(* Claim about load_gene_list (SpecGeneList) *)

\* The identifier a line holds: the part from its first to its last
\* character that is not whitespace; none for a blank line.
InkPositions(line) == {i \in 1..Len(line) : line[i] \notin Whitespace}
IsBlankLine(line) == InkPositions(line) = {}
IdentifierOf(line) ==
    SubSeq(line, Min(InkPositions(line)), Max(InkPositions(line)))

\* C19: load_gene_list returns exactly the set of the whitespace-stripped
\* non-blank lines after the first line; the first line never contributes,
\* duplicates collapse and blank lines give no identifier.
C19_GenesAreStrippedLinesAfterHeader ==
    g_pc = "returned" =>
        /\ g_genes = {IdentifierOf(g_file[i]) :
                         i \in {j \in 2..Len(g_file) : ~IsBlankLine(g_file[j])}}
        /\ <<>> \notin g_genes
        /\ Cardinality(g_genes) <= Len(g_file) - 1

C19_Witness ==
    /\ g_pc = "returned"
    /\ g_file = << <<"b">>, <<" ", "a", " ">>, <<" ">>, <<"a">> >>
    /\ g_genes = {<<"a">>}

----------------------------------------------------------------------------
(* Claims about download_interactions (SpecOmnipath) *)

\* download_interactions has ended, by a return or by an exception.
DownloadEnded == o_pc \in {"returned", "raised"}

\* The table that was obtained is in a CSV file.
TableSaved == \E f \in o_files : f.rows = o_interactions

\* The write of line 269 was refused by the file system: the directory
\* named by --output does not exist.
WriteRefused == o_error = "OSError"

\* C20: whenever download_interactions has obtained a non-empty table, then
\* for every value of --output (absent, a directory or a path ending in
\* "/", a file path such as my_interactions.csv) it ends by returning that
\* table, and the table is in a CSV file.  A write that the file system
\* refuses is left out of the statement.
C20_NonEmptyTableSavedAndReturned ==
    (DownloadEnded /\ o_interactions # <<>> /\ ~WriteRefused) =>
        /\ o_pc = "returned"
        /\ o_return = OmniSome(o_interactions)
        /\ TableSaved

----------------------------------------------------------------------------
(* Claims about folders_compare.py (SpecFolders) *)

\* Two directory trees are identical at every depth: the same entry names,
\* the same kind for every name, every file comparing equal.
RECURSIVE TreesIdentical(_, _)
TreesIdentical(l, r) ==
    /\ DOMAIN l = DOMAIN r
    /\ \A n \in DOMAIN l :
          /\ l[n].kind = r[n].kind
          /\ l[n].kind = "file" => cmp(l[n], r[n]) = "same"
          /\ l[n].kind = "dir" => TreesIdentical(l[n].entries, r[n].entries)

\* No entry of either tree bears a name that filecmp.dircmp leaves out of
\* its listing.
RECURSIVE NothingIgnored(_)
NothingIgnored(d) ==
    /\ dir_list(d) = DOMAIN d
    /\ \A n \in DOMAIN d :
          d[n].kind = "dir" => NothingIgnored(d[n].entries)

\* C21: quick_directory_comparison returns True exactly when the two trees
\* are identical at every depth (same names in every directory, same kind
\* for every common name, every common file comparing equal).  Stated for
\* the trees all of whose entries filecmp.dircmp lists.
C21_QuickTrueIffTreesIdentical ==
    (/\ f_quick # "none"
     /\ NothingIgnored(f_dir1.entries)
     /\ NothingIgnored(f_dir2.entries)) =>
        (f_quick = "True" <=> TreesIdentical(f_dir1.entries, f_dir2.entries))

\* C28: whenever both functions have been applied to a pair of trees, the
\* boolean of compare_directories_detailed equals the boolean of
\* quick_directory_comparison.
C28_DetailedAgreesWithQuick ==
    f_detailed # "none" => f_detailed = f_quick

----------------------------------------------------------------------------
(* Claims about the order of correction and sorting (SpecModule) *)

\* The primary table has been sorted and carries an fdr column.
SortedWithFdr ==
    /\ m_pc \in {"significant", "summary", "exited"}
    /\ HasColumn(results_df, "p_value")
    /\ HasColumn(results_df, "fdr")

\* The FDR value the code attached to a module.
FdrOfModule(module_id) ==
    LET i == CHOOSE k \in 1..Len(results_df.rows) :
                 results_df.rows[k]["module_id"] = module_id
    IN  results_df.rows[i]["fdr"]

\* The result list sorted by p-value first, in one of the orders a sort
\* may give.
SortedFirst(order) == [i \in 1..Len(results) |-> results[order[i]]]

\* C22: correcting the unsorted results and sorting afterwards, as the code
\* does, gives every module the FDR value that sorting first and
\* correcting afterwards gives it, whatever order the sorts give to equal
\* p-values.
C22_FdrIndependentOfSortOrder ==
    SortedWithFdr =>
        \A order \in AscendingOrders(PValues(results)) :
            LET sorted == SortedFirst(order)
            IN  \A sortind \in AscendingOrders(PValues(sorted)) :
                    LET fdr_values == fdr_bh(PValues(sorted), sortind)
                    IN  \A i \in 1..Len(sorted) :
                            FracEq(FdrOfModule(sorted[i]["module_id"]),
                                   fdr_values[i])

\* Two results whose p-values decrease in the order of the module file, so
\* that the sort changes the order of the rows.
C22_Witness ==
    /\ SortedWithFdr
    /\ Len(results) >= 2
    /\ FracLess(results[2]["p_value"], results[1]["p_value"])
    /\ results_df.rows[1]["module_id"] = results[2]["module_id"]
    /\ ~FracEq(results_df.rows[1]["fdr"], results_df.rows[2]["fdr"])

\* Two results with one p-value that the sort has exchanged.
C22_TiedAndExchanged ==
    /\ SortedWithFdr
    /\ Len(results) >= 2
    /\ FracEq(results[1]["p_value"], results[2]["p_value"])
    /\ results_df.rows[1]["module_id"] = results[2]["module_id"]

----------------------------------------------------------------------------
(* Claims about the results per module ID (SpecModule) *)

\* The index of the first row of the module file that carries the ID.
FirstRowOf(module_id) ==
    CHOOSE k \in 1..Len(module_df.rows) :
        /\ module_df.rows[k]["ID"] = module_id
        /\ \A j \in 1..(k - 1) : module_df.rows[j]["ID"] # module_id

\* The distinct IDs of the module file whose first row has Members.
IdsWithMembers ==
    {module_df.rows[k]["ID"] : k \in
        {i \in 1..Len(module_df.rows) :
            module_df.rows[FirstRowOf(module_df.rows[i]["ID"])]["Members"]
                # NaNMembers}}

\* C23: the primary output has exactly one row for each distinct module ID
\* whose first row in the module file has non-empty Members; the size and
\* the name of that row, and the gene set given to the test, are those of
\* the first row with the ID; no ID is in two rows or tested twice.
C23_OneResultPerModuleId ==
    /\ ModuleLoaded =>
          \A i, j \in 1..Len(fisher_calls) :
              fisher_calls[i].module_id = fisher_calls[j].module_id => i = j
    /\ output_csv.written =>
          LET rows == PrimaryRows
          IN  /\ {rows[i]["module_id"] : i \in 1..Len(rows)} = IdsWithMembers
              /\ Len(rows) = Cardinality(IdsWithMembers)
              /\ \A i \in 1..Len(rows) :
                    LET first == module_df.rows[FirstRowOf(rows[i]["module_id"])]
                    IN  /\ rows[i]["module_name"] = first["process_name"]
                        /\ rows[i]["module_size"] =
                              Cardinality(members_genes(first["Members"]))
                        /\ \E c \in 1..Len(fisher_calls) :
                              /\ fisher_calls[c].module_id
                                    = rows[i]["module_id"]
                              /\ fisher_calls[c].module_genes
                                    = members_genes(first["Members"])

\* A module file that repeats an ID with other Members, and a primary
\* output written from it.
C23_Witness ==
    /\ output_csv.written
    /\ Len(module_df.rows) >= 2
    /\ module_df.rows[1]["ID"] = module_df.rows[2]["ID"]
    /\ module_df.rows[1]["Members"] # NaNMembers
    /\ module_df.rows[2]["Members"] # NaNMembers
    /\ members_genes(module_df.rows[1]["Members"])
          # members_genes(module_df.rows[2]["Members"])

----------------------------------------------------------------------------
(* Claims about the changelog (SpecChangelog) *)

\* The fields (sha, author, date, subject) of the commit lines.
CommitFields == [i \in 1..Len(cl_commits) |-> split(cl_commits[i], "\t")]

\* The lines of the written file.
ChangelogLines == split(cl_file.text, "\n")

IsHeading(line) == Len(line) >= 3 /\ SubSeq(line, 1, 3) = <<"#", "#", " ">>
IsEntry(line) == Len(line) >= 2 /\ SubSeq(line, 1, 2) = <<"-", " ">>
HeadingDate(line) == SubSeq(line, 4, Len(line))

\* A date as a number: its digits read as one decimal numeral.
RECURSIVE DateValue(_)
DateValue(date) ==
    IF date = <<>> THEN 0
    ELSE LET last == date[Len(date)]
             rest == DateValue(SubSeq(date, 1, Len(date) - 1))
         IN  IF IsDigit(last)
             THEN 10 * rest + (CHOOSE v \in 0..9 : Digits[v + 1] = last)
             ELSE rest

\* The lines that follow heading h up to the next empty line.
EntriesUnder(h) ==
    LET lines == ChangelogLines
        stop == Min({j \in (h + 1)..Len(lines) : lines[j] = <<>>})
    IN  SubSeq(lines, h + 1, stop - 1)

\* How a commit is shown: subject, author and the first 7 characters of
\* its hash.
ShownAs(f) ==
    <<"-", " ">> \o f[4] \o <<" ", "(">> \o f[2] \o <<",", " ", Backtick>>
        \o SubSeq(f[1], 1, 7) \o <<Backtick, ")">>

\* The commits of one date, in the order of the input.
CommitsOn(date) == SelectSeq(CommitFields, LAMBDA f : f[3] = date)

\* C24: for well-formed commit lines the changelog shows each commit once,
\* under the heading of its own date; the headings are in strictly
\* descending order of date; the commits under a heading are in the order
\* of the input; each is shown with the first 7 characters of its hash.
C24_ChangelogGroupsByDateDescending ==
    cl_file.written =>
        LET lines == ChangelogLines
            heads == {h \in 1..Len(lines) : IsHeading(lines[h])}
        IN  /\ \A g, h \in heads :
                  g < h => DateValue(HeadingDate(lines[g]))
                              > DateValue(HeadingDate(lines[h]))
            /\ {HeadingDate(lines[h]) : h \in heads}
                  = {CommitFields[i][3] : i \in 1..Len(CommitFields)}
            /\ \A h \in heads :
                  LET shown == EntriesUnder(h)
                      there == CommitsOn(HeadingDate(lines[h]))
                  IN  /\ Len(shown) = Len(there)
                      /\ \A k \in 1..Len(there) :
                            shown[k] = ShownAs(there[k])
            /\ Cardinality({j \in 1..Len(lines) : IsEntry(lines[j])})
                  = Len(CommitFields)

\* Three commits, the first and the third of one date and the second of a
\* later date, written to the changelog.
C24_Witness ==
    /\ cl_file.written
    /\ Len(cl_commits) = 3
    /\ CommitFields[1][3] = CommitFields[3][3]
    /\ DateValue(CommitFields[2][3]) > DateValue(CommitFields[1][3])
    /\ Len(CommitFields[1][1]) > 7

----------------------------------------------------------------------------
(* Further claims about the identifier converter (SpecConverter) *)

AnsweredRequests == {k \in Requests : u_log[k].outcome = "answered"}
NonEmptyInputs == {id \in Range(u_ids) : IsNonEmptyStr(id)}

\* C25: when convert_ids_batch has returned, whatever the requests did, the
\* mapping has a key for every non-empty identifier of the input, and only
\* for those; an identifier maps to itself or to the gene symbol obtained
\* for it, and to itself when no request holding it was answered.
C25_ResultCoversEveryInput ==
    (u_pc = "idle" /\ u_calls > 0) =>
        /\ DOMAIN u_out = NonEmptyInputs
        /\ \A id \in NonEmptyInputs :
              /\ u_out[id] \in {id, GeneSymbolOf(id)}
              /\ (\A k \in AnsweredRequests : id \notin Range(u_log[k].ids))
                    => u_out[id] = id

\* A returned call whose input holds the empty string, a gene symbol and
\* an accession all of whose requests failed.
C25_Witness ==
    /\ u_pc = "idle"
    /\ u_calls > 0
    /\ EmptyId \in Range(u_ids)
    /\ str_TP53 \in Range(u_ids)
    /\ GivenUp(<<u_calls, 0>>)
    /\ u_out[Accession(2)] = Accession(2)

\* The call in progress, or else the last one, whose accessions are u_valid.
CurrentCall == IF u_pc = "query" THEN u_calls + 1 ELSE u_calls
CurrentOffsets == {cb[2] : cb \in {x \in LoggedBatches : x[1] = CurrentCall}}
CurrentRequests == {k \in Requests : u_log[k].call = CurrentCall}

\* The identifiers of the batches at the offsets from b on, in order.
RECURSIVE BatchesFrom(_)
BatchesFrom(b) ==
    IF b \notin CurrentOffsets THEN <<>>
    ELSE LET ids == IdsOf(<<CurrentCall, b>>)
         IN  ids \o BatchesFrom(b + Len(ids))

\* The safety half of C26.
BatchesPartitionInput ==
    /\ Cardinality(CurrentRequests) <= 3 * ((Len(u_valid) + 9) \div 10)
    /\ \A b \in CurrentOffsets :
          /\ Len(IdsOf(<<CurrentCall, b>>)) <= 10
          /\ \A k \in AttemptsOf(<<CurrentCall, b>>) :
                u_log[k].ids = IdsOf(<<CurrentCall, b>>)
    /\ \A b1, b2 \in CurrentOffsets :
          b1 < b2 => Max(EventsOf(<<CurrentCall, b1>>))
                        < Min(EventsOf(<<CurrentCall, b2>>))
    /\ (u_pc = "idle" /\ u_calls > 0) => BatchesFrom(0) = u_valid

\* C26: the accessions of a call are cut into consecutive batches of at
\* most 10, every accession in exactly one batch; the batches are
\* requested in order; the call makes at most 3 * ceil(n / 10) requests
\* and, every request ending in an answer or an exception, returns.
C26_BatchesPartitionAndTerminate ==
    /\ []BatchesPartitionInput
    /\ (u_pc = "query") ~> (u_pc = "idle")

\* A returned call of more than 10 accessions in which every request
\* failed: 3 requests for each of the two batches.
C26_Witness ==
    /\ u_pc = "idle"
    /\ Len(u_valid) > 10
    /\ Cardinality(CurrentRequests) = 6
    /\ Len(IdsOf(<<CurrentCall, 10>>)) = Len(u_valid) - 10

\* The accessions and the gene symbols among the identifiers passed so far.
AccessionsSeen ==
    {id \in u_seen : IsNonEmptyStr(id) /\ UNIPROT_ID_PATTERN_match(id)}
SymbolsSeen ==
    {id \in u_seen : IsNonEmptyStr(id) /\ ~UNIPROT_ID_PATTERN_match(id)}

\* C29: after any calls and any answers, total_ids = converted_ids +
\* failed_ids, neither of the two is negative, and each distinct
\* identifier is counted at most once in total_ids and at most once in
\* already_gene_symbols.
C29_StatisticsAddUp ==
    u_pc = "idle" =>
        /\ u_stats.total_ids = u_stats.converted_ids + u_stats.failed_ids
        /\ u_stats.converted_ids >= 0
        /\ u_stats.failed_ids >= 0
        /\ u_stats.total_ids <= Cardinality(AccessionsSeen)
        /\ u_stats.already_gene_symbols <= Cardinality(SymbolsSeen)

\* The first three lines of C29 alone.
StatisticsSum ==
    u_pc = "idle" =>
        /\ u_stats.total_ids = u_stats.converted_ids + u_stats.failed_ids
        /\ u_stats.converted_ids >= 0
        /\ u_stats.failed_ids >= 0

\* C30: an identifier is sent to the remote API only if the whole string
\* is a well-formed accession; a well-formed accession followed by other
\* characters is kept as a gene symbol and is not sent.
C30_OnlyWholeAccessionsAreSent ==
    \A k \in Requests :
        \A j \in 1..Len(u_log[k].ids) : IsAccession(u_log[k].ids[j])

----------------------------------------------------------------------------
(* Further claims about the interaction downloader (SpecOmnipath) *)

InvalidNames(list) ==
    list.given /\ \E j \in 1..Len(list.value) :
                     list.value[j] \notin InteractionDataset
InvalidOrganismName == upper(o_args.organism) \notin Organism
NoDownloaderClass ==
    /\ o_args.specific_dataset.given
    /\ lower(o_args.specific_dataset.value) \notin DATASET_CLASSES

\* Nothing was fetched or written, and the call, if over, ended with an
\* error: ValueError, or an error message and an empty table.
NothingFetched ==
    /\ o_pc \in {"called", "raised", "returned"}
    /\ o_interactions = <<>>
    /\ o_files = {}
    /\ \A j \in 1..Len(o_printed) : o_printed[j] # "Downloaded"
    /\ o_pc = "raised" => o_error = "ValueError"
    /\ o_pc = "returned" =>
          /\ o_return = OmniSome(<<>>)
          /\ \E j \in 1..Len(o_printed) :
                o_printed[j] = "Error: Invalid dataset name"

\* C27: with an organism name that is no member of Organism, a specific
\* dataset name that has no downloader class, or an invalid name anywhere
\* in the include or exclude list, download_interactions fetches nothing,
\* writes no file and ends with an error.
C27_InvalidArgumentsFetchNothing ==
    (\/ InvalidOrganismName
     \/ NoDownloaderClass
     \/ InvalidNames(o_args.include_datasets)
     \/ InvalidNames(o_args.exclude_datasets)) => NothingFetched

\* C27 for every dataset name but the empty string.
InvalidNamedArgumentsFetchNothing ==
    (\/ InvalidOrganismName
     \/ NoDownloaderClass /\ o_args.specific_dataset.value # <<>>
     \/ InvalidNames(o_args.include_datasets)
     \/ InvalidNames(o_args.exclude_datasets)) => NothingFetched

\* An invalid name after a valid one in --include has ended the call.
InvalidIncludeRaised ==
    /\ o_pc = "raised"
    /\ ~InvalidOrganismName
    /\ o_args.include_datasets = OmniSome(<<"omnipath", "bogus">>)

============================================================================
